---------------------------- MODULE Spec2Model ----------------------------
(***************************************************************************)
(* Model of hazel/coreten/core/intrusive_ptr.h: intrusive_ptr_target with  *)
(* its two embedded atomic counters, the strong handle intrusive_ptr and   *)
(* the weak handle weak_intrusive_ptr.                                     *)
(*                                                                         *)
(* Handles are slots holding a target address or the null singleton.       *)
(* Threads run handle operations; every access to a shared atomic counter  *)
(* is one step, the local computation that follows it belongs to the same  *)
(* step.  Raw addresses handed out by release() wait in rawStrong/rawWeak  *)
(* until reclaim() adopts them.                                            *)
(***************************************************************************)
EXTENDS Integers, FiniteSets

\* ------------------------------------------------------------------ bounds
NumStrong == 3
NumWeak == 2
MaxRaw == 1
\* how often a target that is resurrected through a non-owned address is
\* torn down again
MaxHooks == 2

\* std::atomic<size_t> arithmetic wraps; the width is scaled to 16 bits
SizeMod == 2 ^ 16

\* NullType::singleton() of intrusive_target_default_null_type is nullptr
singleton == 0

\* the threads that run handle operations concurrently
Threads == {1, 2}
\* the heap addresses new can return; the counters of distinct targets never
\* interact, the model follows the life of each address once
Targets == {1}
Addrs == {singleton} \cup Targets
StrongSlots == 1..NumStrong
WeakSlots == 1..NumWeak

VARIABLES
    refcount,    \* intrusive_ptr_target::__refcount of every target
    weakcount,   \* intrusive_ptr_target::__weakcount of every target
    heap,        \* "unborn" (not yet allocated by new), "live", "freed"
    strong,      \* intrusive_ptr::target_ of every strong handle slot
    weak,        \* weak_intrusive_ptr::target_ of every weak handle slot
    rawStrong,   \* addresses returned by intrusive_ptr::release(), not yet reclaimed
    rawWeak,     \* addresses returned by weak_intrusive_ptr::release(), not yet reclaimed
    pc,          \* position of every thread inside the operation it runs
    cur,         \* the handle slot (this) the thread's operation works on
    loc,         \* the thread's local: lock()'s refcount, reclaim()'s owning_weak_ptr
    hookCalls,   \* number of calls of release_resources() on every target
    hookBy,      \* the threads that called release_resources() on every target
    freeCalls,   \* number of times delete ran on every target
    fatal        \* the CORETEN_ENFORCE checks that have failed so far

vars == <<refcount, weakcount, heap, strong, weak, rawStrong, rawWeak,
          pc, cur, loc, hookCalls, hookBy, freeCalls, fatal>>

counters == <<refcount, weakcount>>
ghosts == <<hookCalls, hookBy, freeCalls>>
locals == <<cur, loc>>
raws == <<rawStrong, rawWeak>>

\* ----------------------------------------------------- atomic primitives
\* detail::atomic_refcount_increment: fetch_add(1) + 1
atomic_refcount_increment(c) == (c + 1) % SizeMod

\* detail::atomic_weakcount_increment: fetch_add(1) + 1
atomic_weakcount_increment(c) == (c + 1) % SizeMod

\* detail::atomic_refcount_decrement: fetch_sub(1) - 1
atomic_refcount_decrement(c) == (c - 1) % SizeMod

\* mutant: the weak decrement is lost
atomic_weakcount_decrement_lost(c) == c

\* detail::atomic_weakcount_decrement: fetch_sub(1) - 1
atomic_weakcount_decrement(c) == (c - 1) % SizeMod

\* ------------------------------------------------------------ observers
\* intrusive_ptr::use_count
use_count(h) == IF strong[h] = singleton THEN 0 ELSE refcount[strong[h]]

\* intrusive_ptr::weak_use_count
weak_use_count(h) == IF strong[h] = singleton THEN 0 ELSE weakcount[strong[h]]

\* weak_intrusive_ptr::use_count
weak_ptr_use_count(k) == IF weak[k] = singleton THEN 0 ELSE refcount[weak[k]]

\* weak_intrusive_ptr::weak_use_count
weak_ptr_weak_use_count(k) == IF weak[k] = singleton THEN 0 ELSE weakcount[weak[k]]

\* mutant: expired() answers for targets only, a sentinel handle is not expired
expired_nonnull(k) == weak[k] # singleton /\ weak_ptr_use_count(k) = 0

\* mutant: expired() tests the weak count
expired_byWeakCount(k) == weak_ptr_weak_use_count(k) = 0

\* weak_intrusive_ptr::expired
expired(k) == weak_ptr_use_count(k) = 0

\* the CORETEN_ENFORCE checks of the file: make, retain_, weak retain_,
\* weak reclaim, ~intrusive_ptr_target, unsafe_reclaim_from_nonowning
Enforces == {"make", "retain", "weak_retain", "weak_reclaim", "dtor", "nonowning"}

\* --------------------------------------------------- scheduling helpers
StrongPcs == {"rs_inhook", "rs_wload", "rs_wdec", "rs_delete"}
WeakPcs == {"wr_delete"}
LockPcs == {"lk_load", "lk_cas"}
ReclaimPcs == {"rc_ref", "rc_weak"}

\* a strong handle some running operation is writing (reset_)
StrongBusy(h) == \E t \in Threads : pc[t] \in StrongPcs /\ cur[t] = h

\* a weak handle some running operation is writing (reset_)
WeakBusy(k) == \E t \in Threads : pc[t] \in WeakPcs /\ cur[t] = k

\* a weak handle a running lock() reads
WeakRead(k) == \E t \in Threads : pc[t] \in LockPcs /\ cur[t] = k

Idle(t) == pc[t] = "idle"
FreeStrong(h) == strong[h] = singleton /\ ~StrongBusy(h)
FreeWeak(k) == weak[k] = singleton /\ ~WeakBusy(k) /\ ~WeakRead(k)

\* handle slots are interchangeable names of handle variables: a handle that
\* is constructed takes the lowest slot holding no handle
NewStrong(j) == FreeStrong(j) /\ \A i \in StrongSlots : FreeStrong(i) => j <= i
NewWeak(l) == FreeWeak(l) /\ \A i \in WeakSlots : FreeWeak(i) => l <= i

\* the target a thread's running operation works on
RsTarget(t) == strong[cur[t]]
WkTarget(t) == weak[cur[t]]

\* --------------------------------------------------------------- Init
Init ==
    /\ refcount = [x \in Targets |-> 0]
    /\ weakcount = [x \in Targets |-> 0]
    /\ heap = [x \in Targets |-> "unborn"]
    /\ strong = [h \in StrongSlots |-> singleton]
    /\ weak = [k \in WeakSlots |-> singleton]
    /\ rawStrong = [x \in Targets |-> 0]
    /\ rawWeak = [x \in Targets |-> 0]
    /\ pc = [t \in Threads |-> "idle"]
    /\ cur = [t \in Threads |-> 0]
    /\ loc = [t \in Threads |-> 0]
    /\ hookCalls = [x \in Targets |-> 0]
    /\ hookBy = [x \in Targets |-> {}]
    /\ freeCalls = [x \in Targets |-> 0]
    /\ fatal = {}

\* the thread's operation returns
Return(t) ==
    /\ pc' = [pc EXCEPT ![t] = "idle"]
    /\ cur' = [cur EXCEPT ![t] = 0]
    /\ loc' = [loc EXCEPT ![t] = 0]

\* the thread's operation moves on to position p of the operation on slot c
Goto(t, p, c, l) ==
    /\ pc' = [pc EXCEPT ![t] = p]
    /\ cur' = [cur EXCEPT ![t] = c]
    /\ loc' = [loc EXCEPT ![t] = l]

\* mutant: the destructor accepts weak_count 0 only
TargetDtorOk_strict(x) == refcount[x] = 0 /\ weakcount[x] = 0

\* ~intrusive_ptr_target: the two CORETEN_ENFORCE of the destructor
TargetDtorOk(x) == refcount[x] = 0 /\ (weakcount[x] = 0 \/ weakcount[x] = 1)

\* delete target_
Delete(x) ==
    /\ heap' = [heap EXCEPT ![x] = "freed"]
    /\ freeCalls' = [freeCalls EXCEPT ![x] = @ + 1]
    /\ fatal' = IF TargetDtorOk(x) THEN fatal ELSE fatal \cup {"dtor"}

\* -------------------------------------------------- intrusive_ptr (strong)
\* mutant: make() sets the counters through the guarded increments
Make_viaRetain(t, h) ==
    /\ Idle(t) /\ NewStrong(h)
    /\ \E x \in Targets :
        /\ heap[x] = "unborn"
        /\ heap' = [heap EXCEPT ![x] = "live"]
        /\ refcount' = [refcount EXCEPT ![x] = atomic_refcount_increment(@)]
        /\ weakcount' = [weakcount EXCEPT ![x] = atomic_weakcount_increment(@)]
        /\ strong' = [strong EXCEPT ![h] = x]
        /\ fatal' = fatal \cup {"retain", "weak_retain"}
    /\ UNCHANGED <<weak, raws, pc, locals, ghosts>>

\* mutant: make() forgets the phantom weak unit
Make_noPhantom(t, h) ==
    /\ Idle(t) /\ NewStrong(h)
    /\ \E x \in Targets :
        /\ heap[x] = "unborn"
        /\ heap' = [heap EXCEPT ![x] = "live"]
        /\ refcount' = [refcount EXCEPT ![x] = 1]
        /\ weakcount' = [weakcount EXCEPT ![x] = 0]
        /\ strong' = [strong EXCEPT ![h] = x]
        /\ fatal' = fatal
    /\ UNCHANGED <<weak, raws, pc, locals, ghosts>>

\* intrusive_ptr::make: new Target, the enforce on fresh counters, store 1/1
Make(t, h) ==
    /\ Idle(t) /\ NewStrong(h)
    /\ \E x \in Targets :
        /\ heap[x] = "unborn"
        /\ \A y \in Targets : heap[y] = "unborn" => x <= y
        /\ heap' = [heap EXCEPT ![x] = "live"]
        /\ IF refcount[x] = 0 /\ weakcount[x] = 0
           THEN /\ refcount' = [refcount EXCEPT ![x] = 1]
                /\ weakcount' = [weakcount EXCEPT ![x] = 1]
                /\ strong' = [strong EXCEPT ![h] = x]
                /\ fatal' = fatal
           ELSE /\ fatal' = fatal \cup {"make"}
                /\ UNCHANGED <<refcount, weakcount, strong>>
    /\ UNCHANGED <<weak, raws, pc, locals, ghosts>>

\* mutant: the copy forgets retain_()
StrongRetain_forgotten(a) == UNCHANGED <<refcount, fatal>>

\* mutant: retain_ increments without the enforce on the new count
StrongRetain_noguard(a) ==
    IF a = singleton
    THEN UNCHANGED <<refcount, fatal>>
    ELSE /\ refcount' = [refcount EXCEPT ![a] = atomic_refcount_increment(@)]
         /\ fatal' = fatal

\* intrusive_ptr::retain_ applied to a handle whose target_ is a
StrongRetain(a) ==
    IF a = singleton
    THEN UNCHANGED <<refcount, fatal>>
    ELSE /\ refcount' = [refcount EXCEPT ![a] = atomic_refcount_increment(@)]
         /\ fatal' = IF atomic_refcount_increment(refcount[a]) # 1
                     THEN fatal ELSE fatal \cup {"retain"}

\* did retain_ on address a pass its enforce
StrongRetainOk(a) == a = singleton \/ atomic_refcount_increment(refcount[a]) # 1

\* intrusive_ptr(const intrusive_ptr& rhs): target_(rhs.target_), retain_()
CopyStrong(t, h, j) ==
    /\ Idle(t) /\ h # j /\ ~StrongBusy(h) /\ NewStrong(j)
    /\ StrongRetain(strong[h])
    /\ strong' = IF StrongRetainOk(strong[h])
                 THEN [strong EXCEPT ![j] = strong[h]] ELSE strong
    /\ UNCHANGED <<weakcount, heap, weak, raws, pc, locals, ghosts>>

\* mutant: the move constructor leaves the source as it was
MoveStrong_copies(t, h, j) ==
    /\ Idle(t) /\ h # j /\ ~StrongBusy(h) /\ NewStrong(j)
    /\ strong[h] # singleton
    /\ strong' = [strong EXCEPT ![j] = strong[h]]
    /\ UNCHANGED <<counters, heap, weak, raws, pc, locals, ghosts, fatal>>

\* intrusive_ptr(intrusive_ptr&& rhs): target_(rhs.target_), rhs.target_ = null
MoveStrong(t, h, j) ==
    /\ Idle(t) /\ h # j /\ ~StrongBusy(h) /\ NewStrong(j)
    /\ strong[h] # singleton
    /\ strong' = [strong EXCEPT ![j] = strong[h], ![h] = singleton]
    /\ UNCHANGED <<counters, heap, weak, raws, pc, locals, ghosts, fatal>>

\* intrusive_ptr::swap
SwapStrong(t, h, j) ==
    /\ Idle(t) /\ h < j /\ ~StrongBusy(h) /\ ~StrongBusy(j)
    /\ strong[h] # strong[j]
    /\ strong' = [strong EXCEPT ![h] = strong[j], ![j] = strong[h]]
    /\ UNCHANGED <<counters, heap, weak, raws, pc, locals, ghosts, fatal>>

\* mutant: reset_ tests the value fetch_sub returned (the count before the
\* decrement) against 0, so the hook is never reached
ResetStrong_oldvalue(t, h) ==
    /\ Idle(t) /\ ~StrongBusy(h)
    /\ IF strong[h] = singleton
       THEN UNCHANGED <<refcount, strong, pc, locals, hookCalls, hookBy>>
       ELSE /\ refcount' = [refcount EXCEPT ![strong[h]] = atomic_refcount_decrement(@)]
            /\ IF refcount[strong[h]] = 0
               THEN /\ Goto(t, "rs_inhook", h, 0)
                    /\ hookCalls' = [hookCalls EXCEPT ![strong[h]] = @ + 1]
                    /\ hookBy' = [hookBy EXCEPT ![strong[h]] = @ \cup {t}]
                    /\ strong' = strong
               ELSE /\ strong' = [strong EXCEPT ![h] = singleton]
                    /\ UNCHANGED <<pc, locals, hookCalls, hookBy>>
    /\ UNCHANGED <<weakcount, heap, weak, raws, freeCalls, fatal>>

\* mutant: reset_ leaves target_ in the handle unless it ran the teardown
ResetStrong_notnulled(t, h) ==
    /\ Idle(t) /\ ~StrongBusy(h)
    /\ IF strong[h] = singleton
       THEN UNCHANGED <<refcount, strong, pc, locals, hookCalls, hookBy>>
       ELSE /\ refcount' = [refcount EXCEPT ![strong[h]] = atomic_refcount_decrement(@)]
            /\ IF atomic_refcount_decrement(refcount[strong[h]]) = 0
               THEN /\ Goto(t, "rs_inhook", h, 0)
                    /\ hookCalls' = [hookCalls EXCEPT ![strong[h]] = @ + 1]
                    /\ hookBy' = [hookBy EXCEPT ![strong[h]] = @ \cup {t}]
                    /\ strong' = strong
               ELSE UNCHANGED <<strong, pc, locals, hookCalls, hookBy>>
    /\ UNCHANGED <<weakcount, heap, weak, raws, freeCalls, fatal>>

\* mutant: reset_ starts the teardown one drop early, at <= 1
ResetStrong_le1(t, h) ==
    /\ Idle(t) /\ ~StrongBusy(h)
    /\ IF strong[h] = singleton
       THEN UNCHANGED <<refcount, strong, pc, locals, hookCalls, hookBy>>
       ELSE /\ refcount' = [refcount EXCEPT ![strong[h]] = atomic_refcount_decrement(@)]
            /\ IF atomic_refcount_decrement(refcount[strong[h]]) <= 1
               THEN /\ Goto(t, "rs_inhook", h, 0)
                    /\ hookCalls' = [hookCalls EXCEPT ![strong[h]] = @ + 1]
                    /\ hookBy' = [hookBy EXCEPT ![strong[h]] = @ \cup {t}]
                    /\ strong' = strong
               ELSE /\ strong' = [strong EXCEPT ![h] = singleton]
                    /\ UNCHANGED <<pc, locals, hookCalls, hookBy>>
    /\ UNCHANGED <<weakcount, heap, weak, raws, freeCalls, fatal>>

\* intrusive_ptr::reset_ up to the call of the hook: the null test,
\* atomic_refcount_decrement(target_->refcount_) == 0 and, when it holds,
\* the call of target_->release_resources(); else target_ = null
ResetStrong(t, h) ==
    /\ Idle(t) /\ ~StrongBusy(h)
    /\ IF strong[h] = singleton
       THEN UNCHANGED <<refcount, strong, pc, locals, hookCalls, hookBy>>
       ELSE /\ refcount' = [refcount EXCEPT ![strong[h]] = atomic_refcount_decrement(@)]
            /\ IF atomic_refcount_decrement(refcount[strong[h]]) = 0
               THEN /\ Goto(t, "rs_inhook", h, 0)
                    /\ hookCalls' = [hookCalls EXCEPT ![strong[h]] = @ + 1]
                    /\ hookBy' = [hookBy EXCEPT ![strong[h]] = @ \cup {t}]
                    /\ strong' = strong
               ELSE /\ strong' = [strong EXCEPT ![h] = singleton]
                    /\ UNCHANGED <<pc, locals, hookCalls, hookBy>>
    /\ UNCHANGED <<weakcount, heap, weak, raws, freeCalls, fatal>>

\* reset_: release_resources() returns
HookReturn(t) ==
    /\ pc[t] = "rs_inhook"
    /\ pc' = [pc EXCEPT ![t] = "rs_wload"]
    /\ UNCHANGED <<counters, heap, strong, weak, raws, locals, ghosts, fatal>>

\* mutant: the last strong drop deletes whatever weak_count it loads
StrongWeakLoad_always(t) ==
    /\ pc[t] = "rs_wload"
    /\ pc' = [pc EXCEPT ![t] = "rs_delete"]
    /\ UNCHANGED <<counters, heap, strong, weak, raws, locals, ghosts, fatal>>

\* reset_: target_->weakcount_.load(acquire) == 1
StrongWeakLoad(t) ==
    /\ pc[t] = "rs_wload"
    /\ pc' = [pc EXCEPT ![t] = IF weakcount[RsTarget(t)] = 1 THEN "rs_delete" ELSE "rs_wdec"]
    /\ UNCHANGED <<counters, heap, strong, weak, raws, locals, ghosts, fatal>>

\* mutant: the last strong drop decrements weak_count and never deletes
StrongWeakDec_noDelete(t) ==
    /\ pc[t] = "rs_wdec"
    /\ weakcount' = [weakcount EXCEPT ![RsTarget(t)] = atomic_weakcount_decrement(@)]
    /\ strong' = [strong EXCEPT ![cur[t]] = singleton]
    /\ Return(t)
    /\ UNCHANGED <<refcount, heap, weak, raws, ghosts, fatal>>

\* mutant: the last strong drop deletes when its decrement leaves one unit
StrongWeakDec_le1(t) ==
    /\ pc[t] = "rs_wdec"
    /\ weakcount' = [weakcount EXCEPT ![RsTarget(t)] = atomic_weakcount_decrement(@)]
    /\ IF atomic_weakcount_decrement(weakcount[RsTarget(t)]) <= 1
       THEN /\ pc' = [pc EXCEPT ![t] = "rs_delete"]
            /\ UNCHANGED <<strong, locals>>
       ELSE /\ strong' = [strong EXCEPT ![cur[t]] = singleton]
            /\ Return(t)
    /\ UNCHANGED <<refcount, heap, weak, raws, ghosts, fatal>>

\* reset_: atomic_weakcount_decrement(target_->weakcount_) == 0, then
\* target_ = null when nothing is left to delete
StrongWeakDec(t) ==
    /\ pc[t] = "rs_wdec"
    /\ weakcount' = [weakcount EXCEPT ![RsTarget(t)] = atomic_weakcount_decrement(@)]
    /\ IF atomic_weakcount_decrement(weakcount[RsTarget(t)]) = 0
       THEN /\ pc' = [pc EXCEPT ![t] = "rs_delete"]
            /\ UNCHANGED <<strong, locals>>
       ELSE /\ strong' = [strong EXCEPT ![cur[t]] = singleton]
            /\ Return(t)
    /\ UNCHANGED <<refcount, heap, weak, raws, ghosts, fatal>>

\* reset_: delete target_; target_ = null
StrongDelete(t) ==
    /\ pc[t] = "rs_delete"
    /\ Delete(RsTarget(t))
    /\ strong' = [strong EXCEPT ![cur[t]] = singleton]
    /\ Return(t)
    /\ UNCHANGED <<counters, weak, raws, hookCalls, hookBy>>

\* mutant: release() returns the address and keeps it in the handle
ReleaseStrong_keeps(t, h) ==
    /\ Idle(t) /\ ~StrongBusy(h)
    /\ strong[h] # singleton
    /\ rawStrong[strong[h]] < MaxRaw
    /\ rawStrong' = [rawStrong EXCEPT ![strong[h]] = @ + 1]
    /\ UNCHANGED <<counters, heap, strong, weak, rawWeak, pc, locals, ghosts, fatal>>

\* mutant: release() gives the unit up like reset()
ReleaseStrong_decrements(t, h) ==
    /\ Idle(t) /\ ~StrongBusy(h)
    /\ strong[h] # singleton
    /\ rawStrong[strong[h]] < MaxRaw
    /\ rawStrong' = [rawStrong EXCEPT ![strong[h]] = @ + 1]
    /\ refcount' = [refcount EXCEPT ![strong[h]] = atomic_refcount_decrement(@)]
    /\ strong' = [strong EXCEPT ![h] = singleton]
    /\ UNCHANGED <<weakcount, heap, weak, rawWeak, pc, locals, ghosts, fatal>>

\* intrusive_ptr::release
ReleaseStrong(t, h) ==
    /\ Idle(t) /\ ~StrongBusy(h)
    /\ strong[h] # singleton => rawStrong[strong[h]] < MaxRaw
    /\ rawStrong' = IF strong[h] = singleton THEN rawStrong
                    ELSE [rawStrong EXCEPT ![strong[h]] = @ + 1]
    /\ strong' = [strong EXCEPT ![h] = singleton]
    /\ UNCHANGED <<counters, heap, weak, rawWeak, pc, locals, ghosts, fatal>>

\* intrusive_ptr::reclaim of an address release() returned
ReclaimStrong(t, a, j) ==
    /\ Idle(t) /\ NewStrong(j)
    /\ a # singleton => rawStrong[a] > 0
    /\ rawStrong' = IF a = singleton THEN rawStrong
                    ELSE [rawStrong EXCEPT ![a] = @ - 1]
    /\ strong' = [strong EXCEPT ![j] = a]
    /\ UNCHANGED <<counters, heap, weak, rawWeak, pc, locals, ghosts, fatal>>

StrongNext ==
    \E t \in Threads :
        \/ \E h \in StrongSlots : Make(t, h)
        \/ \E h, j \in StrongSlots : CopyStrong(t, h, j)
        \/ \E h, j \in StrongSlots : MoveStrong(t, h, j)
        \/ \E h, j \in StrongSlots : SwapStrong(t, h, j)
        \/ \E h \in StrongSlots : ResetStrong(t, h)
        \/ HookReturn(t)
        \/ StrongWeakLoad(t)
        \/ StrongWeakDec(t)
        \/ StrongDelete(t)
        \/ \E h \in StrongSlots : ReleaseStrong(t, h)
        \/ \E a \in Addrs, j \in StrongSlots : ReclaimStrong(t, a, j)

\* ------------------------------------------------ weak_intrusive_ptr (weak)
\* mutant: the weak copy forgets retain_()
WeakRetain_forgotten(a) == UNCHANGED <<weakcount, fatal>>

\* mutant: weak retain_ increments without the enforce on the new count
WeakRetain_noguard(a) ==
    IF a = singleton
    THEN UNCHANGED <<weakcount, fatal>>
    ELSE /\ weakcount' = [weakcount EXCEPT ![a] = atomic_weakcount_increment(@)]
         /\ fatal' = fatal

\* mutant: weak retain_ also enforces that the target is not expired
WeakRetain_expired(a) ==
    IF a = singleton
    THEN UNCHANGED <<weakcount, fatal>>
    ELSE /\ weakcount' = [weakcount EXCEPT ![a] = atomic_weakcount_increment(@)]
         /\ fatal' = IF /\ atomic_weakcount_increment(weakcount[a]) # 1
                        /\ refcount[a] > 0
                     THEN fatal ELSE fatal \cup {"weak_retain"}

\* weak_intrusive_ptr::retain_ applied to a handle whose target_ is a
WeakRetain(a) ==
    IF a = singleton
    THEN UNCHANGED <<weakcount, fatal>>
    ELSE /\ weakcount' = [weakcount EXCEPT ![a] = atomic_weakcount_increment(@)]
         /\ fatal' = IF atomic_weakcount_increment(weakcount[a]) # 1
                     THEN fatal ELSE fatal \cup {"weak_retain"}

\* did weak retain_ on address a pass its enforce
WeakRetainOk(a) == a = singleton \/ atomic_weakcount_increment(weakcount[a]) # 1

\* weak_intrusive_ptr(const intrusive_ptr& ptr): target_(ptr.get()), retain_()
WeakFromStrong(t, h, k) ==
    /\ Idle(t) /\ ~StrongBusy(h) /\ NewWeak(k)
    /\ WeakRetain(strong[h])
    /\ weak' = IF WeakRetainOk(strong[h])
               THEN [weak EXCEPT ![k] = strong[h]] ELSE weak
    /\ UNCHANGED <<refcount, heap, strong, raws, pc, locals, ghosts>>

\* weak_intrusive_ptr(const weak_intrusive_ptr& rhs): target_(rhs.target_), retain_()
CopyWeak(t, k, l) ==
    /\ Idle(t) /\ k # l /\ ~WeakBusy(k) /\ NewWeak(l)
    /\ WeakRetain(weak[k])
    /\ weak' = IF WeakRetainOk(weak[k])
               THEN [weak EXCEPT ![l] = weak[k]] ELSE weak
    /\ UNCHANGED <<refcount, heap, strong, raws, pc, locals, ghosts>>

\* weak_intrusive_ptr(weak_intrusive_ptr&& rhs)
MoveWeak(t, k, l) ==
    /\ Idle(t) /\ k # l /\ ~WeakBusy(k) /\ ~WeakRead(k) /\ NewWeak(l)
    /\ weak[k] # singleton
    /\ weak' = [weak EXCEPT ![l] = weak[k], ![k] = singleton]
    /\ UNCHANGED <<counters, heap, strong, raws, pc, locals, ghosts, fatal>>

\* mutant: weak reset_ deletes when the phantom unit is the only one left
ResetWeak_phantom(t, k) ==
    /\ Idle(t) /\ ~WeakBusy(k) /\ ~WeakRead(k)
    /\ IF weak[k] = singleton
       THEN UNCHANGED <<weakcount, weak, pc, locals>>
       ELSE /\ weakcount' = [weakcount EXCEPT ![weak[k]] = atomic_weakcount_decrement(@)]
            /\ IF atomic_weakcount_decrement(weakcount[weak[k]]) <= 1
               THEN /\ Goto(t, "wr_delete", k, 0)
                    /\ weak' = weak
               ELSE /\ weak' = [weak EXCEPT ![k] = singleton]
                    /\ UNCHANGED <<pc, locals>>
    /\ UNCHANGED <<refcount, heap, strong, raws, ghosts, fatal>>

\* mutant: weak reset_ leaves target_ in the handle unless it deletes
ResetWeak_notnulled(t, k) ==
    /\ Idle(t) /\ ~WeakBusy(k) /\ ~WeakRead(k)
    /\ IF weak[k] = singleton
       THEN UNCHANGED <<weakcount, weak, pc, locals>>
       ELSE /\ weakcount' = [weakcount EXCEPT ![weak[k]] = atomic_weakcount_decrement(@)]
            /\ IF atomic_weakcount_decrement(weakcount[weak[k]]) = 0
               THEN /\ Goto(t, "wr_delete", k, 0)
                    /\ weak' = weak
               ELSE UNCHANGED <<weak, pc, locals>>
    /\ UNCHANGED <<refcount, heap, strong, raws, ghosts, fatal>>

\* weak_intrusive_ptr::reset_ up to its decrement: the null test and
\* atomic_weakcount_decrement(target_->weakcount_) == 0
ResetWeak(t, k) ==
    /\ Idle(t) /\ ~WeakBusy(k) /\ ~WeakRead(k)
    /\ IF weak[k] = singleton
       THEN UNCHANGED <<weakcount, weak, pc, locals>>
       ELSE /\ weakcount' = [weakcount EXCEPT ![weak[k]] = atomic_weakcount_decrement(@)]
            /\ IF atomic_weakcount_decrement(weakcount[weak[k]]) = 0
               THEN /\ Goto(t, "wr_delete", k, 0)
                    /\ weak' = weak
               ELSE /\ weak' = [weak EXCEPT ![k] = singleton]
                    /\ UNCHANGED <<pc, locals>>
    /\ UNCHANGED <<refcount, heap, strong, raws, ghosts, fatal>>

\* weak reset_: delete target_; target_ = null
WeakDelete(t) ==
    /\ pc[t] = "wr_delete"
    /\ Delete(WkTarget(t))
    /\ weak' = [weak EXCEPT ![cur[t]] = singleton]
    /\ Return(t)
    /\ UNCHANGED <<counters, strong, raws, hookCalls, hookBy>>

\* weak_intrusive_ptr::lock up to the test of expired()
LockExpired(t, k) ==
    /\ Idle(t) /\ ~WeakBusy(k)
    /\ IF expired(k)
       THEN UNCHANGED <<pc, locals>>
       ELSE Goto(t, "lk_load", k, 0)
    /\ UNCHANGED <<counters, heap, strong, weak, raws, ghosts, fatal>>

\* mutant: the loop of lock() does not test refcount == 0
LockLoad_nocheck(t) ==
    /\ pc[t] = "lk_load"
    /\ pc' = [pc EXCEPT ![t] = "lk_cas"]
    /\ loc' = [loc EXCEPT ![t] = refcount[WkTarget(t)]]
    /\ UNCHANGED <<cur, counters, heap, strong, weak, raws, ghosts, fatal>>

\* lock: refcount = target_->refcount_.load(), and the loop's first test of refcount == 0
LockLoad(t) ==
    /\ pc[t] = "lk_load"
    /\ IF refcount[WkTarget(t)] = 0
       THEN Return(t)
       ELSE /\ pc' = [pc EXCEPT ![t] = "lk_cas"]
            /\ loc' = [loc EXCEPT ![t] = refcount[WkTarget(t)]]
            /\ UNCHANGED cur
    /\ UNCHANGED <<counters, heap, strong, weak, raws, ghosts, fatal>>

\* mutant: lock() increments with fetch_add instead of the compare-exchange
LockCas_fetchadd(t, j) ==
    /\ pc[t] = "lk_cas"
    /\ NewStrong(j)
    /\ refcount' = [refcount EXCEPT ![WkTarget(t)] = atomic_refcount_increment(@)]
    /\ strong' = [strong EXCEPT ![j] = WkTarget(t)]
    /\ Return(t)
    /\ UNCHANGED <<weakcount, heap, weak, raws, ghosts, fatal>>

\* mutant: the exchange stores refcount instead of refcount + 1
LockCas_noincrement(t, j) ==
    /\ pc[t] = "lk_cas"
    /\ IF refcount[WkTarget(t)] = loc[t]
       THEN /\ NewStrong(j)
            /\ strong' = [strong EXCEPT ![j] = WkTarget(t)]
            /\ Return(t)
            /\ UNCHANGED refcount
       ELSE /\ UNCHANGED <<refcount, strong>>
            /\ IF refcount[WkTarget(t)] = 0
               THEN Return(t)
               ELSE /\ loc' = [loc EXCEPT ![t] = refcount[WkTarget(t)]]
                    /\ UNCHANGED <<pc, cur>>
    /\ UNCHANGED <<weakcount, heap, weak, raws, ghosts, fatal>>

\* mutant: a failed exchange leaves the expected value as it was read first
LockCas_noreload(t, j) ==
    /\ pc[t] = "lk_cas"
    /\ IF refcount[WkTarget(t)] = loc[t]
       THEN /\ NewStrong(j)
            /\ refcount' = [refcount EXCEPT ![WkTarget(t)] = (loc[t] + 1) % SizeMod]
            /\ strong' = [strong EXCEPT ![j] = WkTarget(t)]
            /\ Return(t)
       ELSE UNCHANGED <<refcount, strong, pc, locals>>
    /\ UNCHANGED <<weakcount, heap, weak, raws, ghosts, fatal>>

\* lock: compare_exchange_weak(refcount, refcount + 1); a failed exchange
\* reloads refcount and the loop tests it against 0 again; a successful one
\* returns intrusive_ptr(target_, DontIncreaseRefcount), built in slot j
LockCas(t, j) ==
    /\ pc[t] = "lk_cas"
    /\ IF refcount[WkTarget(t)] = loc[t]
       THEN /\ NewStrong(j)
            /\ refcount' = [refcount EXCEPT ![WkTarget(t)] = (loc[t] + 1) % SizeMod]
            /\ strong' = [strong EXCEPT ![j] = WkTarget(t)]
            /\ Return(t)
       ELSE /\ UNCHANGED <<refcount, strong>>
            /\ IF refcount[WkTarget(t)] = 0
               THEN Return(t)
               ELSE /\ loc' = [loc EXCEPT ![t] = refcount[WkTarget(t)]]
                    /\ UNCHANGED <<pc, cur>>
    /\ UNCHANGED <<weakcount, heap, weak, raws, ghosts, fatal>>

\* weak_intrusive_ptr::release
ReleaseWeak(t, k) ==
    /\ Idle(t) /\ ~WeakBusy(k) /\ ~WeakRead(k)
    /\ weak[k] # singleton => rawWeak[weak[k]] < MaxRaw
    /\ rawWeak' = IF weak[k] = singleton THEN rawWeak
                  ELSE [rawWeak EXCEPT ![weak[k]] = @ + 1]
    /\ weak' = [weak EXCEPT ![k] = singleton]
    /\ UNCHANGED <<counters, heap, strong, rawStrong, pc, locals, ghosts, fatal>>

\* mutant: the enforce of reclaim is weakcount_.load() > 1 alone
ReclaimWeak_strict(t, a, l) ==
    /\ Idle(t)
    /\ a = singleton \/ weakcount[a] > 1 => NewWeak(l)
    /\ a # singleton => rawWeak[a] > 0
    /\ rawWeak' = IF a = singleton THEN rawWeak
                  ELSE [rawWeak EXCEPT ![a] = @ - 1]
    /\ IF a = singleton \/ weakcount[a] > 1
       THEN /\ weak' = [weak EXCEPT ![l] = a]
            /\ fatal' = fatal
       ELSE /\ fatal' = fatal \cup {"weak_reclaim"}
            /\ weak' = weak
    /\ UNCHANGED <<counters, heap, strong, rawStrong, pc, locals, ghosts>>

\* weak_intrusive_ptr::reclaim of an address release() returned, up to the
\* enforce's first load: owning_weak_ptr == null || weakcount_.load() > 1
ReclaimWeak(t, a, l) ==
    /\ Idle(t)
    /\ a = singleton \/ weakcount[a] > 1 => NewWeak(l)
    /\ a # singleton => rawWeak[a] > 0
    /\ rawWeak' = IF a = singleton THEN rawWeak
                  ELSE [rawWeak EXCEPT ![a] = @ - 1]
    /\ IF a = singleton \/ weakcount[a] > 1
       THEN /\ weak' = [weak EXCEPT ![l] = a]
            /\ UNCHANGED <<pc, locals>>
       ELSE /\ Goto(t, "rc_ref", 0, a)
            /\ weak' = weak
    /\ UNCHANGED <<counters, heap, strong, rawStrong, ghosts, fatal>>

\* mutant: the enforce of reclaim does not look at refcount
ReclaimWeakRef_skip(t) ==
    /\ pc[t] = "rc_ref"
    /\ pc' = [pc EXCEPT ![t] = "rc_weak"]
    /\ UNCHANGED <<locals, fatal>>
    /\ UNCHANGED <<counters, heap, strong, weak, raws, ghosts>>

\* reclaim: the enforce's second load, refcount_.load() == 0
ReclaimWeakRef(t) ==
    /\ pc[t] = "rc_ref"
    /\ IF refcount[loc[t]] = 0
       THEN /\ pc' = [pc EXCEPT ![t] = "rc_weak"]
            /\ UNCHANGED <<locals, fatal>>
       ELSE /\ fatal' = fatal \cup {"weak_reclaim"}
            /\ Return(t)
    /\ UNCHANGED <<counters, heap, strong, weak, raws, ghosts>>

\* reclaim: the enforce's third load, weakcount_.load() > 0, and the return
\* of weak_intrusive_ptr(owning_weak_ptr), built in slot l
ReclaimWeakWeak(t, l) ==
    /\ pc[t] = "rc_weak"
    /\ IF weakcount[loc[t]] > 0
       THEN /\ NewWeak(l)
            /\ weak' = [weak EXCEPT ![l] = loc[t]]
            /\ fatal' = fatal
       ELSE /\ fatal' = fatal \cup {"weak_reclaim"}
            /\ weak' = weak
    /\ Return(t)
    /\ UNCHANGED <<counters, heap, strong, raws, ghosts>>

WeakNext ==
    \E t \in Threads :
        \/ \E h \in StrongSlots, k \in WeakSlots : WeakFromStrong(t, h, k)
        \/ \E k, l \in WeakSlots : CopyWeak(t, k, l)
        \/ \E k, l \in WeakSlots : MoveWeak(t, k, l)
        \/ \E k \in WeakSlots : ResetWeak(t, k)
        \/ WeakDelete(t)
        \/ \E k \in WeakSlots : LockExpired(t, k)
        \/ LockLoad(t)
        \/ \E j \in StrongSlots : LockCas(t, j)
        \/ \E k \in WeakSlots : ReleaseWeak(t, k)
        \/ \E a \in Addrs, l \in WeakSlots : ReclaimWeak(t, a, l)
        \/ ReclaimWeakRef(t)
        \/ \E l \in WeakSlots : ReclaimWeakWeak(t, l)

Next == StrongNext \/ WeakNext

Spec == Init /\ [][Next]_vars

\* ---------------------------------------------------------------- units
\* the live strong handles of target x: a handle inside reset_ has given
\* its unit up with the decrement
StrongHandles(x) == {h \in StrongSlots : strong[h] = x /\ ~StrongBusy(h)}

\* live strong units: live handles plus released, not yet reclaimed addresses
StrongUnits(x) == Cardinality(StrongHandles(x)) + rawStrong[x]

WeakHandles(x) == {k \in WeakSlots : weak[k] = x /\ ~WeakBusy(k)}

\* a weak reclaim() that has taken the address and not yet returned the handle
WeakInReclaim(x) == {t \in Threads : pc[t] \in ReclaimPcs /\ loc[t] = x}

\* live weak units
WeakUnits(x) ==
    Cardinality(WeakHandles(x)) + rawWeak[x] + Cardinality(WeakInReclaim(x))

\* the threads inside the teardown of x that still hold the phantom weak unit
Teardown(x) ==
    {t \in Threads : pc[t] \in {"rs_inhook", "rs_wload", "rs_wdec"} /\ RsTarget(t) = x}

\* the threads that are about to delete x
Deleting(x) ==
    {t \in Threads : \/ pc[t] = "rs_delete" /\ RsTarget(t) = x
                     \/ pc[t] = "wr_delete" /\ WkTarget(t) = x}

\* no operation on x is under way
Quiet(x) ==
    \A t \in Threads :
        \/ Idle(t)
        \/ pc[t] \in StrongPcs /\ RsTarget(t) # x
        \/ pc[t] \in WeakPcs \cup LockPcs /\ WkTarget(t) # x
        \/ pc[t] \in ReclaimPcs /\ loc[t] # x

\* ------------------------------------------------------------------- C1
\* C1: use_count() read through any live strong handle equals the number of
\* live strong units of its target (live handles plus released addresses not
\* yet reclaimed), and strong_count > 0 exactly when a strong unit exists.
C1_UseCountIsStrongUnits ==
    /\ \A h \in StrongSlots :
           strong[h] # singleton /\ ~StrongBusy(h)
               => use_count(h) = StrongUnits(strong[h])
    /\ \A x \in Targets : refcount[x] > 0 <=> StrongUnits(x) > 0

\* three handles and one released address share the target
C1_Witness ==
    \E h \in StrongSlots :
        /\ strong[h] # singleton /\ ~StrongBusy(h)
        /\ rawStrong[strong[h]] = 1
        /\ Cardinality(StrongHandles(strong[h])) = 3
        /\ use_count(h) = 4

\* ------------------------------------------------------------------- C2
\* C2: weak_use_count() of a target that is not deallocated equals the number
\* of live weak units plus the phantom unit; between operations the phantom
\* unit is there exactly when a strong unit is live, and inside the last
\* strong drop the dropping thread holds it until it has decremented it.
Phantom(x) == IF StrongUnits(x) > 0 \/ Teardown(x) # {} THEN 1 ELSE 0

C2_WeakCountIsWeakUnits ==
    \A x \in Targets :
        heap[x] = "live" /\ Deleting(x) = {} =>
            /\ weakcount[x] = WeakUnits(x) + Phantom(x)
            /\ Quiet(x) =>
                   weakcount[x] = WeakUnits(x) + (IF StrongUnits(x) > 0 THEN 1 ELSE 0)
            /\ \A h \in StrongHandles(x) : weak_use_count(h) = weakcount[x]
            /\ \A k \in WeakHandles(x) : weak_ptr_weak_use_count(k) = weakcount[x]

\* after the last strong drop has completed, two weak handles and a released
\* weak address are left and the count is exactly 3
C2_Witness ==
    \E x \in Targets :
        /\ heap[x] = "live" /\ Quiet(x)
        /\ StrongUnits(x) = 0 /\ hookCalls[x] = 1
        /\ Cardinality(WeakHandles(x)) = 2 /\ rawWeak[x] = 1
        /\ weakcount[x] = 3

\* ------------------------------------------------------------------- C3
\* C3: release_resources() has been called once on a target whose
\* strong_count has reached 0 and not at all on any other target: the call
\* comes with the 1-to-0 step, never while strong_count > 0, never twice,
\* however many weak handles are live.
C3_HookExactlyOnce ==
    \A x \in Targets :
        hookCalls[x] = (IF heap[x] # "unborn" /\ refcount[x] = 0 THEN 1 ELSE 0)

\* the hook has run once with two weak handles live
C3_Witness ==
    \E x \in Targets :
        /\ hookCalls[x] = 1 /\ heap[x] = "live"
        /\ Cardinality(WeakHandles(x)) = 2

\* ------------------------------------------------------------------- C4
\* C4: the target is deallocated at most once in every interleaving of the
\* final strong drop with the final weak drop, and exactly once when both
\* drops have completed (no unit is left and no operation is under way).
C4_FreedExactlyOnce ==
    \A x \in Targets :
        /\ freeCalls[x] <= 1
        /\ heap[x] = "freed" <=> freeCalls[x] = 1
        /\ heap[x] # "unborn" /\ Quiet(x) /\ StrongUnits(x) = 0 /\ WeakUnits(x) = 0
               => freeCalls[x] = 1

\* the race: the strong dropper has loaded weak_count = 2 and is about to
\* decrement it, meanwhile the last weak handle was dropped
C4_Witness ==
    \E t \in Threads :
        /\ pc[t] = "rs_wdec"
        /\ weakcount[RsTarget(t)] = 1
        /\ WeakUnits(RsTarget(t)) = 0

\* ------------------------------------------------------------------- C5
\* C5: whenever a thread is about to deallocate a target or has deallocated
\* it, release_resources() has been called on it and has returned.
C5_HookBeforeFree ==
    \A x \in Targets :
        heap[x] = "freed" \/ Deleting(x) # {} =>
            /\ hookCalls[x] >= 1
            /\ \A t \in Threads : ~(pc[t] = "rs_inhook" /\ RsTarget(t) = x)

\* a thread dropping a weak handle deallocates the target another thread tore down
C5_Witness ==
    \E t \in Threads :
        /\ pc[t] = "wr_delete"
        /\ hookCalls[WkTarget(t)] = 1
        /\ t \notin hookBy[WkTarget(t)]

\* ------------------------------------------------------------------- C6
\* Two threads hold one strong handle each to the same target and drop
\* them concurrently: thread t owns the handle in slot t, strong_count is 2,
\* any number of weak handles and released weak addresses exist and are
\* copied and dropped meanwhile.
InitTwoDrops ==
    /\ \E w \in 0..NumWeak, r \in 0..MaxRaw :
        /\ weak = [k \in WeakSlots |-> IF k <= w THEN 1 ELSE singleton]
        /\ rawWeak = [x \in Targets |-> r]
        /\ weakcount = [x \in Targets |-> 1 + w + r]
    /\ refcount = [x \in Targets |-> 2]
    /\ heap = [x \in Targets |-> "live"]
    /\ strong = [h \in StrongSlots |-> IF h \in Threads THEN 1 ELSE singleton]
    /\ rawStrong = [x \in Targets |-> 0]
    /\ pc = [t \in Threads |-> "idle"]
    /\ cur = [t \in Threads |-> 0]
    /\ loc = [t \in Threads |-> 0]
    /\ hookCalls = [x \in Targets |-> 0]
    /\ hookBy = [x \in Targets |-> {}]
    /\ freeCalls = [x \in Targets |-> 0]
    /\ fatal = {}

NextTwoDrops ==
    \E t \in Threads :
        \/ strong[t] # singleton /\ ResetStrong(t, t)
        \/ HookReturn(t)
        \/ StrongWeakLoad(t)
        \/ StrongWeakDec(t)
        \/ StrongDelete(t)
        \/ \E k \in WeakSlots : strong[t] # singleton /\ WeakFromStrong(t, t, k)
        \/ \E k, l \in WeakSlots : CopyWeak(t, k, l)
        \/ \E k \in WeakSlots : weak[k] # singleton /\ ResetWeak(t, k)
        \/ WeakDelete(t)
        \/ \E k \in WeakSlots : weak[k] # singleton /\ ReleaseWeak(t, k)
        \/ \E l \in WeakSlots : ReclaimWeak(t, 1, l)
        \/ ReclaimWeakRef(t)
        \/ \E l \in WeakSlots : ReclaimWeakWeak(t, l)

SpecTwoDrops == InitTwoDrops /\ [][NextTwoDrops]_vars

\* thread t has done the decrement of its drop
Dropped(t) == strong[t] = singleton \/ (pc[t] \in StrongPcs /\ cur[t] = t)

\* C6: when two threads drop their strong handles to one target concurrently
\* (strong_count = 2), the first decrement observes 2-to-1 and its thread
\* runs nothing; the second observes 1-to-0, and its thread alone calls the
\* hook, once.
C6_OneThreadSeesZero ==
    LET done == {t \in Threads : Dropped(t)}
    IN  /\ refcount[1] = 2 - Cardinality(done)
        /\ Cardinality(done) <= 1 =>
               /\ hookCalls[1] = 0 /\ hookBy[1] = {}
               /\ heap[1] = "live"
               /\ \A t \in done : Idle(t) /\ strong[t] = singleton
        /\ Cardinality(done) = 2 =>
               /\ hookCalls[1] = 1
               /\ \E t \in Threads : hookBy[1] = {t}
               /\ \A t \in Threads :
                      pc[t] \in StrongPcs => t \in hookBy[1]

\* both handles are dropped: thread 2 is inside the hook, thread 1 has
\* returned from its drop, and a weak handle is still live
C6_Witness ==
    /\ pc[2] = "rs_inhook" /\ hookBy[1] = {2}
    /\ Idle(1) /\ strong[1] = singleton
    /\ WeakHandles(1) # {}

\* ------------------------------------------------------------------- C7
\* C7: once strong_count of a target has reached 0 it stays 0 (lock() never
\* raises it from 0), and no live strong handle refers to a target whose
\* hook has been called.
C7_Inv ==
    \A h \in StrongSlots :
        strong[h] # singleton /\ ~StrongBusy(h) => hookCalls[strong[h]] = 0

C7_Step ==
    \A x \in Targets : heap[x] # "unborn" /\ refcount[x] = 0 => refcount'[x] = 0

C7_LockNeverResurrects == [](C7_Inv) /\ [][C7_Step]_vars

\* lock() read a positive strong_count and lost the race against the last drop
C7_Witness ==
    \E t \in Threads :
        /\ pc[t] = "lk_cas" /\ loc[t] > 0
        /\ refcount[WkTarget(t)] = 0

\* ------------------------------------------------------------------- C8
\* C8: a step of lock() taken on the null singleton or while strong_count of
\* the target is 0 returns the sentinel: it builds no strong handle,
\* raises no fatal error and changes neither counter.
LockReturnsNull(t) ==
    /\ pc'[t] = "idle"
    /\ UNCHANGED <<strong, refcount, weakcount, fatal, heap>>

C8_Step ==
    \A t \in Threads :
        /\ \A k \in WeakSlots : LockExpired(t, k) /\ expired(k) => LockReturnsNull(t)
        /\ LockLoad(t) /\ refcount[WkTarget(t)] = 0 => LockReturnsNull(t)
        /\ \A j \in StrongSlots :
               LockCas(t, j) /\ refcount[WkTarget(t)] = 0 => LockReturnsNull(t)

C8_LockOnExpired == [][C8_Step]_vars

\* a live weak handle to a target that is expired and still allocated
C8_Witness ==
    \E k \in WeakSlots :
        /\ weak[k] # singleton /\ ~WeakBusy(k)
        /\ expired(k) /\ heap[weak[k]] = "live"
        /\ \E t \in Threads : Idle(t)

\* ------------------------------------------------------------------- C9
\* C9: no step of lock() taken while strong_count of the target is positive
\* returns the sentinel, and the step that returns builds a strong handle to
\* the weak handle's target, with strong_count exactly one larger and
\* weak_count unchanged.
C9_Step ==
    \A t \in Threads :
        /\ \A k \in WeakSlots :
               LockExpired(t, k) /\ ~expired(k) => pc'[t] = "lk_load" /\ cur'[t] = k
        /\ LockLoad(t) /\ refcount[WkTarget(t)] > 0 => pc'[t] = "lk_cas"
        /\ \A j \in StrongSlots :
               LockCas(t, j) /\ refcount[WkTarget(t)] > 0 =>
                   \/ pc'[t] = "lk_cas" /\ UNCHANGED <<strong, refcount, weakcount>>
                   \/ /\ pc'[t] = "idle"
                      /\ strong[j] = singleton /\ strong'[j] = WkTarget(t)
                      /\ \A i \in StrongSlots \ {j} : strong'[i] = strong[i]
                      /\ refcount'[WkTarget(t)] = refcount[WkTarget(t)] + 1
                      /\ UNCHANGED <<weakcount, fatal>>

C9_Inv ==
    \A t \in Threads :
        pc[t] = "lk_cas" /\ loc[t] = refcount[WkTarget(t)] => loc[t] > 0

C9_LockOnLive == [](C9_Inv) /\ [][C9_Step]_vars

\* lock() is about to exchange 2 for 3 on a target with two strong handles
C9_Witness ==
    \E t \in Threads :
        /\ pc[t] = "lk_cas" /\ loc[t] = 2
        /\ refcount[WkTarget(t)] = 2
        /\ \E j \in StrongSlots : NewStrong(j)

\* ------------------------------------------------------------------ C10
\* C10: release() empties the handle and hands its address out, reclaim()
\* builds a handle with the address handed out, and neither changes a
\* counter or the number of units of any target; for strong and for weak
\* handles.
UnitsOf(x) == <<StrongUnits(x), WeakUnits(x)>>

C10_Step ==
    \A t \in Threads :
        /\ \A h \in StrongSlots :
               ReleaseStrong(t, h) =>
                   /\ strong'[h] = singleton
                   /\ strong[h] # singleton => rawStrong'[strong[h]] = rawStrong[strong[h]] + 1
                   /\ UNCHANGED <<refcount, weakcount, heap, hookCalls, fatal>>
                   /\ \A x \in Targets : UnitsOf(x)' = UnitsOf(x)
        /\ \A a \in Addrs, j \in StrongSlots :
               ReclaimStrong(t, a, j) =>
                   /\ strong'[j] = a
                   /\ UNCHANGED <<refcount, weakcount, heap, hookCalls, fatal>>
                   /\ \A x \in Targets : UnitsOf(x)' = UnitsOf(x)
        /\ \A k \in WeakSlots :
               ReleaseWeak(t, k) =>
                   /\ weak'[k] = singleton
                   /\ weak[k] # singleton => rawWeak'[weak[k]] = rawWeak[weak[k]] + 1
                   /\ UNCHANGED <<refcount, weakcount, heap, hookCalls, fatal>>
                   /\ \A x \in Targets : UnitsOf(x)' = UnitsOf(x)
        /\ \A a \in Addrs, l \in WeakSlots :
               ReclaimWeak(t, a, l) =>
                   /\ Idle(t)' => weak'[l] = a
                   /\ UNCHANGED <<refcount, weakcount, heap, hookCalls, fatal>>
                   /\ \A x \in Targets : UnitsOf(x)' = UnitsOf(x)
        /\ ReclaimWeakRef(t) => UNCHANGED <<refcount, weakcount, heap, weak, fatal>>
        /\ \A l \in WeakSlots :
               ReclaimWeakWeak(t, l) =>
                   /\ weak'[l] = loc[t]
                   /\ UNCHANGED <<refcount, weakcount, heap, hookCalls, fatal>>
                   /\ \A x \in Targets : UnitsOf(x)' = UnitsOf(x)

C10_ReleaseReclaimRoundTrip == [][C10_Step]_vars

\* every unit of the target is a released address: the counters still count them
C10_Witness ==
    \E x \in Targets :
        /\ rawStrong[x] = 1 /\ rawWeak[x] = 1
        /\ StrongHandles(x) = {} /\ WeakHandles(x) = {}
        /\ refcount[x] = 1 /\ weakcount[x] = 2

\* ------------------------------------------------------------------ C11
\* C11: make() allocates a fresh target, stores strong_count = 1 and
\* weak_count = 1 and returns a non-sentinel handle to it; no enforce fails,
\* the guard of retain_ against 0-to-1 is not involved.
C11_Step ==
    \A t \in Threads, h \in StrongSlots :
        Make(t, h) =>
            \E x \in Targets :
                /\ strong[h] = singleton /\ strong'[h] = x
                /\ heap[x] = "unborn" /\ heap'[x] = "live"
                /\ refcount[x] = 0 /\ refcount'[x] = 1
                /\ weakcount[x] = 0 /\ weakcount'[x] = 1
                /\ StrongUnits(x)' = 1
                /\ fatal' = fatal

C11_MakeStoresOneOne == [][C11_Step]_vars

\* right after make(): one handle, both counters 1, nothing else has happened
C11_Witness ==
    \E x \in Targets :
        /\ heap[x] = "live" /\ refcount[x] = 1 /\ weakcount[x] = 1
        /\ Cardinality(StrongHandles(x)) = 1 /\ rawStrong[x] = 0
        /\ WeakUnits(x) = 0 /\ fatal = {}
        /\ \A t \in Threads : Idle(t)

\* ------------------------------------------------------------------ C12
\* C12: a target with a live weak unit is allocated and nobody is about to
\* deallocate it; after the last strong drop with one weak unit left the hook
\* has run, weak_count is 1 and the target is allocated; a weak drop
\* deallocates only after its decrement has taken weak_count to 0.
C12_Inv ==
    \A x \in Targets :
        /\ WeakUnits(x) > 0 => heap[x] = "live" /\ Deleting(x) = {}
        /\ Quiet(x) /\ heap[x] # "unborn" /\ StrongUnits(x) = 0 /\ WeakUnits(x) = 1
               => hookCalls[x] = 1 /\ weakcount[x] = 1 /\ heap[x] = "live"

C12_Step ==
    \A x \in Targets :
        heap[x] = "live" /\ heap'[x] = "freed" =>
            /\ WeakUnits(x) = 0
            /\ \A t \in Threads : pc[t] = "wr_delete" /\ pc'[t] = "idle" => weakcount[x] = 0

C12_WeakUnitBlocksFree == [](C12_Inv) /\ [][C12_Step]_vars

\* the last strong drop has completed and one weak handle holds the target
C12_Witness ==
    \E x \in Targets :
        /\ Quiet(x) /\ heap[x] = "live"
        /\ StrongUnits(x) = 0 /\ hookCalls[x] = 1
        /\ Cardinality(WeakHandles(x)) = 1 /\ WeakUnits(x) = 1
        /\ weakcount[x] = 1

\* ------------------------------------------------------------------ C13
\* C13: a last strong drop that returns while no weak unit is live has
\* deallocated the target, and a target all of whose strong and weak units
\* have been dropped (no operation on it under way) is deallocated.
C13_Inv ==
    \A x \in Targets :
        heap[x] # "unborn" /\ Quiet(x) /\ StrongUnits(x) = 0 /\ WeakUnits(x) = 0
            => heap[x] = "freed"

C13_Step ==
    \A t \in Threads, x \in Targets :
        /\ pc[t] \in StrongPcs /\ RsTarget(t) = x
        /\ pc'[t] = "idle" /\ WeakUnits(x)' = 0
        => heap'[x] = "freed"

C13_NoLeak == [](C13_Inv) /\ [][C13_Step]_vars

\* the strong dropper lost the fast path (it loaded weak_count = 2) and its
\* own decrement reached 0: it is about to deallocate
C13_Witness ==
    \E t \in Threads :
        /\ pc[t] = "rs_delete"
        /\ weakcount[RsTarget(t)] = 0

\* ------------------------------------------------------------------ C14
\* C14 (I2): in every state of an allocated target, strong_count > 0 implies
\* weak_count >= 1.
C14_I2 ==
    \A x \in Targets :
        heap[x] # "unborn" /\ refcount[x] > 0 => weakcount[x] >= 1

\* strong units only (two handles and a released address): the phantom unit
\* alone keeps weak_count at 1
C14_Witness ==
    \E x \in Targets :
        /\ refcount[x] = 3 /\ rawStrong[x] = 1
        /\ WeakUnits(x) = 0 /\ weakcount[x] = 1

\* ------------------------------------------------------------------ C15
\* C15 as stated: the target is deallocated once, by the step that finds
\* weak_count at 0 after strong_count has reached 0 (at deallocation
\* weak_count is 0 and strong_count is 0).
C15_FreedAtWeakZero ==
    \A x \in Targets :
        Deleting(x) # {} \/ heap[x] = "freed" =>
            /\ freeCalls[x] <= 1
            /\ refcount[x] = 0
            /\ weakcount[x] = 0

\* C15 (amended): the target is deallocated once, after strong_count has
\* reached 0 and the hook has run, when no weak unit is left: by the weak
\* drop whose decrement took weak_count to 0, or by the last strong drop,
\* either after its own decrement took weak_count to 0 or after it loaded
\* weak_count = 1 and skipped the decrement (weak_count then stays 1).
C15_Inv ==
    \A x \in Targets :
        /\ freeCalls[x] <= 1
        /\ Deleting(x) # {} \/ heap[x] = "freed" =>
               /\ refcount[x] = 0 /\ hookCalls[x] = 1
               /\ WeakUnits(x) = 0
               /\ weakcount[x] \in {0, 1}
               /\ Cardinality(Deleting(x)) + freeCalls[x] = 1
        /\ \A t \in Threads : pc[t] = "wr_delete" => weakcount[WkTarget(t)] = 0

C15_Step ==
    \A t \in Threads :
        /\ StrongWeakLoad(t) /\ pc'[t] = "rs_delete" => weakcount[RsTarget(t)] = 1
        /\ StrongWeakDec(t) /\ pc'[t] = "rs_delete" => weakcount'[RsTarget(t)] = 0

C15_FreedAfterLastUnit == [](C15_Inv) /\ [][C15_Step]_vars

\* the fast path: the last strong drop has loaded weak_count = 1 and is
\* about to deallocate without decrementing it
C15_Witness ==
    \E t \in Threads :
        /\ pc[t] = "rs_delete"
        /\ weakcount[RsTarget(t)] = 1 /\ refcount[RsTarget(t)] = 0

\* ------------------------------------------------------------------ C18
\* C18: the move constructor of a strong or weak handle puts the source's
\* address into the destination and the sentinel into the source, swap()
\* exchanges the two addresses; no counter of any target changes and the
\* number of units of every target stays the same.
C18_Step ==
    \A t \in Threads :
        /\ \A h, j \in StrongSlots :
               MoveStrong(t, h, j) =>
                   /\ strong'[j] = strong[h] /\ strong'[h] = singleton
                   /\ \A i \in StrongSlots \ {h, j} : strong'[i] = strong[i]
                   /\ UNCHANGED <<refcount, weakcount, weak, heap, fatal>>
                   /\ \A x \in Targets : UnitsOf(x)' = UnitsOf(x)
        /\ \A h, j \in StrongSlots :
               SwapStrong(t, h, j) =>
                   /\ strong'[j] = strong[h] /\ strong'[h] = strong[j]
                   /\ \A i \in StrongSlots \ {h, j} : strong'[i] = strong[i]
                   /\ UNCHANGED <<refcount, weakcount, weak, heap, fatal>>
                   /\ \A x \in Targets : UnitsOf(x)' = UnitsOf(x)
        /\ \A k, l \in WeakSlots :
               MoveWeak(t, k, l) =>
                   /\ weak'[l] = weak[k] /\ weak'[k] = singleton
                   /\ \A i \in WeakSlots \ {k, l} : weak'[i] = weak[i]
                   /\ UNCHANGED <<refcount, weakcount, strong, heap, fatal>>
                   /\ \A x \in Targets : UnitsOf(x)' = UnitsOf(x)

C18_MoveTransfersUnit == [][C18_Step]_vars

\* a handle in a higher slot next to an empty lower one: it was moved or
\* swapped there, the target still counts two strong units and one weak
C18_Witness ==
    \E x \in Targets :
        /\ strong[1] = singleton /\ strong[2] = x /\ strong[3] = x
        /\ weak[1] = singleton /\ weak[2] = x
        /\ refcount[x] = 2 /\ weakcount[x] = 2
        /\ \A t \in Threads : Idle(t)

\* ------------------------------------------------------------------ C19
\* C19: release() hands the address out and empties the handle without
\* decrementing; as long as a released address has not been reclaimed,
\* whatever handles are dropped, strong_count stays positive, the hook is
\* not called and the target is not deallocated.
C19_Inv ==
    \A x \in Targets :
        rawStrong[x] > 0 =>
            /\ refcount[x] >= rawStrong[x]
            /\ hookCalls[x] = 0
            /\ heap[x] = "live" /\ Deleting(x) = {} /\ Teardown(x) = {}

C19_Step ==
    \A t \in Threads, h \in StrongSlots :
        ReleaseStrong(t, h) /\ strong[h] # singleton =>
            /\ strong'[h] = singleton
            /\ rawStrong'[strong[h]] = rawStrong[strong[h]] + 1
            /\ refcount'[strong[h]] = refcount[strong[h]]

C19_ReleasedUnitLeaks == [](C19_Inv) /\ [][C19_Step]_vars

\* every handle has been dropped, only the released address is left: the
\* count is stuck at 1 and the target is allocated
C19_Witness ==
    \E x \in Targets :
        /\ rawStrong[x] = 1 /\ StrongHandles(x) = {} /\ WeakUnits(x) = 0
        /\ Quiet(x)
        /\ refcount[x] = 1 /\ heap[x] = "live" /\ hookCalls[x] = 0

\* ------------------------------------------ non-owned addresses, raw interop
\* Callers that hold a bare Target* without owning a unit of it: the address
\* seen in a callback (unsafe_reclaim_from_nonowning), raw::intrusive_ptr::incref,
\* and reclaim() of an address release() did not return.  The counters of a
\* target live in its storage: an operation reads them only while the target
\* is allocated, a read of a deallocated target has no defined result and is
\* not part of this specification.
NonowningPcs == {"nr_retain", "nr_unwind"}

Allocated(a) == IF a = singleton THEN TRUE ELSE heap[a] = "live"

\* mutant: unsafe_reclaim_from_nonowning without its enforce
unsafe_reclaim_from_nonowning_nocheck(t, a) ==
    /\ Idle(t) /\ Allocated(a)
    /\ Goto(t, "nr_retain", 0, a)
    /\ UNCHANGED <<counters, heap, strong, weak, raws, ghosts, fatal>>

\* intrusive_ptr::unsafe_reclaim_from_nonowning up to its enforce:
\* raw_ptr == NullType::singleton() || raw_ptr->refcount_.load() > 0
unsafe_reclaim_from_nonowning(t, a) ==
    /\ Idle(t) /\ Allocated(a)
    /\ IF a = singleton \/ refcount[a] > 0
       THEN /\ Goto(t, "nr_retain", 0, a)
            /\ fatal' = fatal
       ELSE /\ fatal' = fatal \cup {"nonowning"}
            /\ UNCHANGED <<pc, locals>>
    /\ UNCHANGED <<counters, heap, strong, weak, raws, ghosts>>

\* unsafe_reclaim_from_nonowning: ptr = reclaim(raw_ptr); ptr.retain_();
\* return ptr (built in slot j).  When the enforce of retain_ fails the
\* exception leaves the function and ptr is destroyed on the way out.
UnsafeReclaimRetain(t, j) ==
    /\ pc[t] = "nr_retain"
    /\ Allocated(loc[t])
    /\ StrongRetainOk(loc[t]) => NewStrong(j)
    /\ StrongRetain(loc[t])
    /\ IF StrongRetainOk(loc[t])
       THEN /\ strong' = [strong EXCEPT ![j] = loc[t]]
            /\ Return(t)
       ELSE /\ strong' = strong
            /\ pc' = [pc EXCEPT ![t] = "nr_unwind"]
            /\ UNCHANGED locals
    /\ UNCHANGED <<weakcount, heap, weak, raws, ghosts>>

\* unsafe_reclaim_from_nonowning: ~intrusive_ptr of ptr while the exception
\* of retain_ unwinds, that is reset_ up to the call of the hook; slot j
\* names ptr during the teardown
UnsafeReclaimUnwind(t, j) ==
    /\ pc[t] = "nr_unwind"
    /\ Allocated(loc[t])
    /\ refcount' = [refcount EXCEPT ![loc[t]] = atomic_refcount_decrement(@)]
    /\ IF atomic_refcount_decrement(refcount[loc[t]]) = 0
       THEN /\ NewStrong(j)
            /\ strong' = [strong EXCEPT ![j] = loc[t]]
            /\ Goto(t, "rs_inhook", j, 0)
            /\ hookCalls' = [hookCalls EXCEPT ![loc[t]] = @ + 1]
            /\ hookBy' = [hookBy EXCEPT ![loc[t]] = @ \cup {t}]
       ELSE /\ Return(t)
            /\ UNCHANGED <<strong, hookCalls, hookBy>>
    /\ UNCHANGED <<weakcount, heap, weak, raws, freeCalls, fatal>>

\* raw::intrusive_ptr::incref(self): if (self) atomic_refcount_increment;
\* the caller holds the address as one more raw strong unit
raw_incref(t, a) ==
    /\ Idle(t) /\ a # singleton /\ heap[a] = "live"
    /\ rawStrong[a] < MaxRaw
    /\ refcount' = [refcount EXCEPT ![a] = atomic_refcount_increment(@)]
    /\ rawStrong' = [rawStrong EXCEPT ![a] = @ + 1]
    /\ UNCHANGED <<weakcount, heap, strong, weak, rawWeak, pc, locals, ghosts, fatal>>

\* intrusive_ptr::reclaim of the address of a target whose strong_count has
\* reached 0 and for which no released unit is outstanding: reclaim builds
\* the handle without a check
ReclaimStrongUnowned(t, a, j) ==
    /\ Idle(t) /\ NewStrong(j)
    /\ a # singleton /\ heap[a] = "live"
    /\ refcount[a] = 0 /\ rawStrong[a] = 0
    /\ strong' = [strong EXCEPT ![j] = a]
    /\ UNCHANGED <<counters, heap, weak, raws, pc, locals, ghosts, fatal>>

\* mutant: decref is the bare atomic decrement, the mirror of incref
raw_decref_bare(t, a, j) ==
    /\ Idle(t) /\ a # singleton /\ heap[a] = "live"
    /\ rawStrong[a] > 0
    /\ NewStrong(j)
    /\ rawStrong' = [rawStrong EXCEPT ![a] = @ - 1]
    /\ refcount' = [refcount EXCEPT ![a] = atomic_refcount_decrement(@)]
    /\ UNCHANGED <<weakcount, heap, strong, weak, rawWeak, pc, locals, ghosts, fatal>>

\* raw::intrusive_ptr::decref(self): reclaim(self) builds a temporary handle
\* that dies at the end of the statement, that is reset_ up to the call of
\* the hook (slot j names the temporary meanwhile); the caller gives up the
\* raw strong unit it held and keeps the address in self
raw_decref(t, a, j) ==
    /\ Idle(t) /\ a # singleton /\ heap[a] = "live"
    /\ rawStrong[a] > 0
    /\ NewStrong(j)
    /\ rawStrong' = [rawStrong EXCEPT ![a] = @ - 1]
    /\ refcount' = [refcount EXCEPT ![a] = atomic_refcount_decrement(@)]
    /\ IF atomic_refcount_decrement(refcount[a]) = 0
       THEN /\ strong' = [strong EXCEPT ![j] = a]
            /\ Goto(t, "rs_inhook", j, a)
            /\ hookCalls' = [hookCalls EXCEPT ![a] = @ + 1]
            /\ hookBy' = [hookBy EXCEPT ![a] = @ \cup {t}]
       ELSE UNCHANGED <<strong, pc, locals, hookCalls, hookBy>>
    /\ UNCHANGED <<weakcount, heap, weak, rawWeak, freeCalls, fatal>>

\* mutant: make_weak lets its strong handle die instead of releasing it
raw_make_weak_consumes(t, a, j) ==
    /\ Idle(t) /\ a # singleton /\ heap[a] = "live"
    /\ rawStrong[a] > 0 /\ rawWeak[a] < MaxRaw
    /\ NewStrong(j)
    /\ WeakRetain(a)
    /\ rawWeak' = [rawWeak EXCEPT ![a] = @ + 1]
    /\ rawStrong' = [rawStrong EXCEPT ![a] = @ - 1]
    /\ refcount' = [refcount EXCEPT ![a] = atomic_refcount_decrement(@)]
    /\ IF atomic_refcount_decrement(refcount[a]) = 0
       THEN /\ strong' = [strong EXCEPT ![j] = a]
            /\ Goto(t, "rs_inhook", j, a)
            /\ hookCalls' = [hookCalls EXCEPT ![a] = @ + 1]
            /\ hookBy' = [hookBy EXCEPT ![a] = @ \cup {t}]
       ELSE UNCHANGED <<strong, pc, locals, hookCalls, hookBy>>
    /\ UNCHANGED <<heap, weak, freeCalls>>

\* raw::intrusive_ptr::make_weak(self): ptr = reclaim(self), wptr(ptr) is the
\* weak retain_, ptr.release() leaves the caller its strong unit and
\* wptr.release() returns the address as a raw weak unit; when retain_
\* fails its enforce, ptr dies with the caller's unit (reset_ up to the
\* call of the hook, slot j names ptr meanwhile)
raw_make_weak(t, a, j) ==
    /\ Idle(t) /\ a # singleton /\ heap[a] = "live"
    /\ rawStrong[a] > 0 /\ rawWeak[a] < MaxRaw
    /\ WeakRetain(a)
    /\ IF WeakRetainOk(a)
       THEN /\ rawWeak' = [rawWeak EXCEPT ![a] = @ + 1]
            /\ UNCHANGED <<refcount, rawStrong, strong, pc, locals, hookCalls, hookBy>>
       ELSE /\ rawWeak' = rawWeak
            /\ rawStrong' = [rawStrong EXCEPT ![a] = @ - 1]
            /\ refcount' = [refcount EXCEPT ![a] = atomic_refcount_decrement(@)]
            /\ IF atomic_refcount_decrement(refcount[a]) = 0
               THEN /\ NewStrong(j)
                    /\ strong' = [strong EXCEPT ![j] = a]
                    /\ Goto(t, "rs_inhook", j, a)
                    /\ hookCalls' = [hookCalls EXCEPT ![a] = @ + 1]
                    /\ hookBy' = [hookBy EXCEPT ![a] = @ \cup {t}]
               ELSE UNCHANGED <<strong, pc, locals, hookCalls, hookBy>>
    /\ UNCHANGED <<heap, weak, freeCalls>>

\* the enforce of weak_intrusive_ptr::reclaim on the address of a target
ReclaimEnforce(a) == weakcount[a] > 1 \/ (refcount[a] = 0 /\ weakcount[a] > 0)

\* raw::weak_intrusive_ptr::decref(self): reclaim(self) builds a temporary
\* weak handle that dies at the end of the statement, that is the weak
\* reset_ up to its delete (slot l names the temporary meanwhile)
raw_weak_decref(t, a, l) ==
    /\ Idle(t) /\ a # singleton /\ heap[a] = "live"
    /\ rawWeak[a] > 0
    /\ IF ReclaimEnforce(a)
       THEN /\ fatal' = fatal
            /\ rawWeak' = [rawWeak EXCEPT ![a] = @ - 1]
            /\ weakcount' = [weakcount EXCEPT ![a] = atomic_weakcount_decrement(@)]
            /\ IF atomic_weakcount_decrement(weakcount[a]) = 0
               THEN /\ NewWeak(l)
                    /\ weak' = [weak EXCEPT ![l] = a]
                    /\ Goto(t, "wr_delete", l, a)
               ELSE UNCHANGED <<weak, pc, locals>>
       ELSE /\ fatal' = fatal \cup {"weak_reclaim"}
            /\ UNCHANGED <<weakcount, rawWeak, weak, pc, locals>>
    /\ UNCHANGED <<refcount, heap, strong, rawStrong, ghosts>>

\* the positions of raw::weak_intrusive_ptr::lock inside wptr.lock()
RawLockPcs == {"rk_load", "rk_cas"}

\* a weak handle slot that names the wptr of a running raw lock
RawLockTemp(k) == \E u \in Threads : pc[u] \in RawLockPcs /\ cur[u] = k

\* raw::weak_intrusive_ptr::lock(self) up to the test of expired(): wptr =
\* reclaim(self) takes the caller's weak unit into a handle (slot l names
\* wptr), wptr.lock() tests expired(); on an expired target lock() returns
\* the sentinel handle, wptr.release() gives the unit back and
\* ptr.release() returns the null address
raw_weak_lock(t, a, l) ==
    /\ Idle(t) /\ a # singleton /\ heap[a] = "live"
    /\ rawWeak[a] > 0 /\ rawStrong[a] < MaxRaw
    /\ IF ~ReclaimEnforce(a)
       THEN /\ fatal' = fatal \cup {"weak_reclaim"}
            /\ UNCHANGED <<weak, rawWeak, pc, locals>>
       ELSE /\ fatal' = fatal
            /\ IF refcount[a] = 0
               THEN UNCHANGED <<weak, rawWeak, pc, locals>>
               ELSE /\ NewWeak(l)
                    /\ weak' = [weak EXCEPT ![l] = a]
                    /\ rawWeak' = [rawWeak EXCEPT ![a] = @ - 1]
                    /\ Goto(t, "rk_load", l, 0)
    /\ UNCHANGED <<counters, heap, strong, rawStrong, ghosts>>

\* raw lock: refcount = target_->refcount_.load() and the loop's first test
\* of refcount == 0, which ends the call with the null address
RawLockLoad(t) ==
    /\ pc[t] = "rk_load"
    /\ IF refcount[WkTarget(t)] = 0
       THEN /\ weak' = [weak EXCEPT ![cur[t]] = singleton]
            /\ rawWeak' = [rawWeak EXCEPT ![WkTarget(t)] = @ + 1]
            /\ Return(t)
       ELSE /\ pc' = [pc EXCEPT ![t] = "rk_cas"]
            /\ loc' = [loc EXCEPT ![t] = refcount[WkTarget(t)]]
            /\ UNCHANGED <<cur, weak, rawWeak>>
    /\ UNCHANGED <<counters, heap, strong, rawStrong, ghosts, fatal>>

\* mutant: raw lock lets wptr die instead of releasing it
RawLockCas_consumes(t) ==
    /\ pc[t] = "rk_cas"
    /\ IF refcount[WkTarget(t)] = loc[t]
       THEN /\ refcount' = [refcount EXCEPT ![WkTarget(t)] = (loc[t] + 1) % SizeMod]
            /\ rawStrong' = [rawStrong EXCEPT ![WkTarget(t)] = @ + 1]
            /\ weakcount' = [weakcount EXCEPT ![WkTarget(t)] = atomic_weakcount_decrement(@)]
            /\ weak' = [weak EXCEPT ![cur[t]] = singleton]
            /\ rawWeak' = rawWeak
            /\ Return(t)
       ELSE /\ UNCHANGED <<refcount, rawStrong, weakcount>>
            /\ IF refcount[WkTarget(t)] = 0
               THEN /\ weak' = [weak EXCEPT ![cur[t]] = singleton]
                    /\ rawWeak' = [rawWeak EXCEPT ![WkTarget(t)] = @ + 1]
                    /\ Return(t)
               ELSE /\ loc' = [loc EXCEPT ![t] = refcount[WkTarget(t)]]
                    /\ UNCHANGED <<pc, cur, weak, rawWeak>>
    /\ UNCHANGED <<heap, strong, ghosts, fatal>>

\* raw lock: compare_exchange_weak(refcount, refcount + 1) and the return:
\* wptr.release() gives the weak unit back to the caller, ptr.release()
\* returns the address with the new strong unit; a failed exchange reloads
\* refcount and the loop tests refcount == 0 again
RawLockCas(t) ==
    /\ pc[t] = "rk_cas"
    /\ IF refcount[WkTarget(t)] = loc[t]
       THEN /\ refcount' = [refcount EXCEPT ![WkTarget(t)] = (loc[t] + 1) % SizeMod]
            /\ rawStrong' = [rawStrong EXCEPT ![WkTarget(t)] = @ + 1]
            /\ weak' = [weak EXCEPT ![cur[t]] = singleton]
            /\ rawWeak' = [rawWeak EXCEPT ![WkTarget(t)] = @ + 1]
            /\ Return(t)
       ELSE /\ UNCHANGED <<refcount, rawStrong>>
            /\ IF refcount[WkTarget(t)] = 0
               THEN /\ weak' = [weak EXCEPT ![cur[t]] = singleton]
                    /\ rawWeak' = [rawWeak EXCEPT ![WkTarget(t)] = @ + 1]
                    /\ Return(t)
               ELSE /\ loc' = [loc EXCEPT ![t] = refcount[WkTarget(t)]]
                    /\ UNCHANGED <<pc, cur, weak, rawWeak>>
    /\ UNCHANGED <<weakcount, heap, strong, ghosts, fatal>>

\* the raw interop functions used by a caller that holds a strong unit,
\* next to the typed strong handles and one kind of weak handle
NextRaw ==
    \E t \in Threads :
        \/ \E h \in StrongSlots : Make(t, h)
        \/ \E h, j \in StrongSlots : strong[h] # singleton /\ CopyStrong(t, h, j)
        \/ \E h \in StrongSlots : strong[h] # singleton /\ ResetStrong(t, h)
        \/ HookReturn(t)
        \/ StrongWeakLoad(t)
        \/ StrongWeakDec(t)
        \/ StrongDelete(t)
        \/ \E h \in StrongSlots : strong[h] # singleton /\ ReleaseStrong(t, h)
        \/ \E a \in Targets, j \in StrongSlots : ReclaimStrong(t, a, j)
        \/ \E a \in Targets : refcount[a] > 0 /\ raw_incref(t, a)
        \/ \E a \in Targets, j \in StrongSlots : raw_decref(t, a, j)
        \/ \E a \in Targets, j \in StrongSlots : raw_make_weak(t, a, j)
        \/ \E a \in Targets, l \in WeakSlots : raw_weak_decref(t, a, l)
        \/ \E a \in Targets, l \in WeakSlots : raw_weak_lock(t, a, l)
        \/ RawLockLoad(t)
        \/ RawLockCas(t)
        \/ \E h \in StrongSlots, k \in WeakSlots :
               strong[h] # singleton /\ WeakFromStrong(t, h, k)
        \/ \E k \in WeakSlots :
               weak[k] # singleton /\ ~RawLockTemp(k) /\ ResetWeak(t, k)
        \/ WeakDelete(t)

SpecRaw == Init /\ [][NextRaw]_vars

\* the strong increments (raw incref on this) and the weak increments a
\* target's constructor applies to its own counters before make() looks
SelfRetains == {0, 1, 2}
SelfWeakRetains == {0, 1}

\* mutant: make() stores 1/1 without looking at the counters
MakeSelfRetaining_noenforce(t, h, r, w) ==
    /\ Idle(t) /\ NewStrong(h)
    /\ r + w > 0
    /\ \E x \in Targets :
        /\ heap[x] = "unborn"
        /\ heap' = [heap EXCEPT ![x] = "live"]
        /\ refcount' = [refcount EXCEPT ![x] = 1]
        /\ weakcount' = [weakcount EXCEPT ![x] = 1]
        /\ strong' = [strong EXCEPT ![h] = x]
    /\ UNCHANGED <<weak, raws, pc, locals, ghosts, fatal>>

\* intrusive_ptr::make for a Target whose constructor has left its counters
\* at r and w, not both 0: new Target, result(target), the enforce fails
\* before the stores; the exception leaves make() and destroys result, that
\* is reset_ up to the call of the hook (slot h names result meanwhile)
MakeSelfRetaining(t, h, r, w) ==
    /\ Idle(t) /\ NewStrong(h)
    /\ r + w > 0
    /\ \E x \in Targets :
        /\ heap[x] = "unborn"
        /\ \A y \in Targets : heap[y] = "unborn" => x <= y
        /\ heap' = [heap EXCEPT ![x] = "live"]
        /\ fatal' = fatal \cup {"make"}
        /\ weakcount' = [weakcount EXCEPT ![x] = w]
        /\ refcount' = [refcount EXCEPT ![x] = atomic_refcount_decrement(r)]
        /\ IF atomic_refcount_decrement(r) = 0
           THEN /\ strong' = [strong EXCEPT ![h] = x]
                /\ Goto(t, "rs_inhook", h, 0)
                /\ hookCalls' = [hookCalls EXCEPT ![x] = @ + 1]
                /\ hookBy' = [hookBy EXCEPT ![x] = @ \cup {t}]
           ELSE UNCHANGED <<strong, pc, locals, hookCalls, hookBy>>
    /\ UNCHANGED <<weak, raws, freeCalls>>

\* a handle is dropped while strong_count of its allocated target is
\* positive (the decrement of a drop at 0 would wrap the counter around) and
\* the target has been torn down fewer than MaxHooks times
Droppable(h) ==
    IF strong[h] = singleton THEN FALSE
    ELSE /\ heap[strong[h]] = "live" /\ refcount[strong[h]] > 0
         /\ hookCalls[strong[h]] < MaxHooks

\* the thread that makes the target and builds and drops the weak handle
\* observing it, and the thread that holds bare addresses of it
OwnerThreads == {1}
ForeignThreads == {2}

\* The scenario of the operations on non-owned addresses: the owner makes a
\* target and observes it through one weak handle; both threads copy and
\* drop strong handles; the foreign thread retains and reclaims bare
\* addresses of the target.
NextMisuse ==
    \E t \in Threads :
        \/ \E h \in StrongSlots : t \in OwnerThreads /\ Make(t, h)
        \/ \E h \in StrongSlots, r \in SelfRetains, w \in SelfWeakRetains :
               t \in OwnerThreads /\ MakeSelfRetaining(t, h, r, w)
        \/ \E h, j \in StrongSlots : Allocated(strong[h]) /\ CopyStrong(t, h, j)
        \/ \E h \in StrongSlots : Droppable(h) /\ ResetStrong(t, h)
        \/ pc[t] \in StrongPcs /\ Allocated(RsTarget(t)) /\ HookReturn(t)
        \/ pc[t] \in StrongPcs /\ Allocated(RsTarget(t)) /\ StrongWeakLoad(t)
        \/ pc[t] \in StrongPcs /\ Allocated(RsTarget(t)) /\ StrongWeakDec(t)
        \/ pc[t] \in StrongPcs /\ Allocated(RsTarget(t)) /\ StrongDelete(t)
        \/ \E h \in StrongSlots :
               /\ t \in OwnerThreads
               /\ Allocated(strong[h])
               /\ WeakFromStrong(t, h, 1)
        \/ /\ t \in OwnerThreads
           /\ Allocated(weak[1]) /\ weak[1] # singleton
           /\ ResetWeak(t, 1)
        \/ pc[t] \in WeakPcs /\ Allocated(WkTarget(t)) /\ WeakDelete(t)
        \/ \E a \in Addrs : t \in ForeignThreads /\ unsafe_reclaim_from_nonowning(t, a)
        \/ \E j \in StrongSlots : UnsafeReclaimRetain(t, j)
        \/ \E j \in StrongSlots : UnsafeReclaimUnwind(t, j)
        \/ \E a \in Targets : t \in ForeignThreads /\ raw_incref(t, a)
        \/ \E a \in Targets, j \in StrongSlots :
               t \in ForeignThreads /\ heap[a] = "live" /\ ReclaimStrong(t, a, j)
        \/ \E a \in Targets, j \in StrongSlots :
               t \in ForeignThreads /\ ReclaimStrongUnowned(t, a, j)

SpecMisuse == Init /\ [][NextMisuse]_vars

\* ------------------------------------------------------------------ C16
\* C16: the copy constructor applied to a non-sentinel strong handle raises
\* strong_count of its target by one and leaves weak_count alone; it builds
\* the new handle when strong_count was positive, and when strong_count was
\* 0 it fails the enforce of retain_ and builds no handle.
C16_Step ==
    \A t \in Threads, h, j \in StrongSlots, x \in Targets :
        CopyStrong(t, h, j) /\ strong[h] = x =>
            /\ refcount'[x] = (refcount[x] + 1) % SizeMod
            /\ weakcount' = weakcount
            /\ IF refcount[x] = 0
               THEN "retain" \in fatal' /\ strong' = strong
               ELSE /\ fatal' = fatal
                    /\ strong'[j] = x /\ strong[j] = singleton
                    /\ \A i \in StrongSlots \ {j} : strong'[i] = strong[i]

C16_CopyRetains == [][C16_Step]_vars

\* a copy of a handle to a torn-down target has failed: the enforce of
\* retain_ is recorded, the source is the only handle
C16_Witness ==
    \E x \in Targets :
        /\ fatal = {"retain"}
        /\ heap[x] = "live" /\ hookCalls[x] = 1
        /\ Cardinality(StrongHandles(x)) = 1 /\ rawStrong[x] = 0
        /\ \A t \in Threads : Idle(t)

\* ------------------------------------------------------------------ C17
\* C17: no step raises strong_count of an allocated target from 0 to 1
\* without a failed enforce of the retain path (retain_ or
\* unsafe_reclaim_from_nonowning) being reported by that step.
C17_Step ==
    \A x \in Targets :
        heap[x] = "live" /\ refcount[x] = 0 /\ refcount'[x] = 1 =>
            "retain" \in fatal' \/ "nonowning" \in fatal'

C17_NoSilentResurrection == [][C17_Step]_vars

\* ------------------------------------------------------------------ C20
\* C20: unsafe_reclaim_from_nonowning fails its enforce and changes nothing
\* when strong_count of the non-sentinel target is 0; on the sentinel it
\* returns the sentinel handle and changes no counter; with strong_count
\* positive it passes the enforce, and its retain, taken with strong_count
\* still positive, returns a handle to the address with strong_count one
\* higher and weak_count unchanged.
C20_Step ==
    \A t \in Threads :
        /\ \A a \in Addrs :
               unsafe_reclaim_from_nonowning(t, a) =>
                   /\ UNCHANGED <<refcount, weakcount, strong, heap, hookCalls>>
                   /\ IF a # singleton /\ refcount[a] = 0
                      THEN "nonowning" \in fatal' /\ pc'[t] = "idle"
                      ELSE fatal' = fatal /\ pc'[t] = "nr_retain" /\ loc'[t] = a
        /\ \A j \in StrongSlots :
               UnsafeReclaimRetain(t, j) =>
                   /\ loc[t] = singleton =>
                          /\ UNCHANGED <<refcount, weakcount, strong, fatal>>
                          /\ pc'[t] = "idle"
                   /\ \A x \in Targets :
                          loc[t] = x /\ refcount[x] > 0 /\ refcount[x] < SizeMod - 1 =>
                              /\ refcount'[x] = refcount[x] + 1
                              /\ strong[j] = singleton /\ strong'[j] = x
                              /\ \A i \in StrongSlots \ {j} : strong'[i] = strong[i]
                              /\ UNCHANGED <<weakcount, fatal>>
                              /\ pc'[t] = "idle"

C20_UnsafeReclaim == [][C20_Step]_vars

\* the call on a torn-down, still allocated target has failed, nothing else
\* went wrong and the count is still 0
C20_Witness ==
    \E x \in Targets :
        /\ fatal = {"nonowning"}
        /\ heap[x] = "live" /\ refcount[x] = 0 /\ hookCalls[x] = 1
        /\ \A t \in Threads : Idle(t)

\* ------------------------------------------------- lock() under fairness
\* one thread promotes weak handles with lock() while the other drops
\* strong handles: during one call of lock() the other thread changes
\* strong_count finitely often, once per handle it drops
Lockers == {1}
Droppers == {2}

\* the caller of lock() has a handle variable for the result
StrongRoom == \E h \in StrongSlots : FreeStrong(h)

\* the position of a step inside its operation: reset_ runs the hook, loads
\* weakcount, decrements it, deletes; lock() loads, then exchanges
PcRank(p) ==
    IF p \in {"rs_inhook", "lk_load"} THEN 1
    ELSE IF p \in {"rs_wload", "lk_cas"} THEN 2
    ELSE IF p = "rs_wdec" THEN 3
    ELSE IF p = "rs_delete" THEN 4
    ELSE 5

\* a target made earlier, held by some strong and some weak handles
InitLock ==
    /\ \E s \in 1..(NumStrong - 1), w \in 0..NumWeak :
        /\ strong = [h \in StrongSlots |-> IF h <= s THEN 1 ELSE singleton]
        /\ weak = [k \in WeakSlots |-> IF k <= w THEN 1 ELSE singleton]
        /\ refcount = [x \in Targets |-> s]
        /\ weakcount = [x \in Targets |-> 1 + w]
    /\ heap = [x \in Targets |-> "live"]
    /\ rawStrong = [x \in Targets |-> 0]
    /\ rawWeak = [x \in Targets |-> 0]
    /\ pc = [t \in Threads |-> "idle"]
    /\ cur = [t \in Threads |-> 0]
    /\ loc = [t \in Threads |-> 0]
    /\ hookCalls = [x \in Targets |-> 0]
    /\ hookBy = [x \in Targets |-> {}]
    /\ freeCalls = [x \in Targets |-> 0]
    /\ fatal = {}

NextLock ==
    \E t \in Threads :
        \/ \E k \in WeakSlots :
               /\ t \in Lockers /\ weak[k] # singleton /\ StrongRoom
               /\ LockExpired(t, k)
        \/ LockLoad(t)
        \/ \E j \in StrongSlots : LockCas(t, j)
        \/ \E h \in StrongSlots :
               t \in Droppers /\ strong[h] # singleton /\ ResetStrong(t, h)
        \/ HookReturn(t)
        \/ StrongWeakLoad(t)
        \/ StrongWeakDec(t)
        \/ StrongDelete(t)

\* a thread inside lock() goes on executing it; a spurious failure of
\* compare_exchange_weak reloads the value it compared and changes nothing,
\* and does not recur for ever
SpecLockFair ==
    /\ InitLock
    /\ [][NextLock]_vars
    /\ \A t \in Threads : WF_vars(LockLoad(t))
    /\ \A t \in Threads : WF_vars(\E j \in StrongSlots : LockCas(t, j))

\* --------------------------------------- weak reclaim of any address
\* weak_intrusive_ptr::reclaim of the address of an allocated target for
\* which no released weak unit is outstanding, up to the enforce's first
\* load: the same code as ReclaimWeak, no unit changes hands
ReclaimWeakUnowned(t, a, l) ==
    /\ Idle(t)
    /\ a # singleton /\ heap[a] = "live" /\ rawWeak[a] = 0
    /\ weakcount[a] > 1 => NewWeak(l)
    /\ IF weakcount[a] > 1
       THEN /\ weak' = [weak EXCEPT ![l] = a]
            /\ UNCHANGED <<pc, locals>>
       ELSE /\ Goto(t, "rc_ref", 0, a)
            /\ weak' = weak
    /\ UNCHANGED <<counters, heap, strong, raws, ghosts, fatal>>

\* a target in one of the states reclaim can meet: constructed and never
\* wrapped (0,0), or made earlier and held by s strong handles, w weak
\* handles and r released weak addresses; with no strong handle and a weak
\* unit left, the teardown of the last strong drop is over
InitReclaim ==
    /\ \E s \in 0..(NumStrong - 1), w \in 0..(NumWeak - 1), r \in 0..MaxRaw :
        /\ strong = [h \in StrongSlots |-> IF h <= s THEN 1 ELSE singleton]
        /\ weak = [k \in WeakSlots |-> IF k <= w THEN 1 ELSE singleton]
        /\ rawWeak = [x \in Targets |-> r]
        /\ refcount = [x \in Targets |-> s]
        /\ weakcount = [x \in Targets |-> w + r + (IF s > 0 THEN 1 ELSE 0)]
        /\ hookCalls = [x \in Targets |-> IF s = 0 /\ w + r > 0 THEN 1 ELSE 0]
        /\ hookBy = [x \in Targets |-> IF s = 0 /\ w + r > 0 THEN {1} ELSE {}]
    /\ heap = [x \in Targets |-> "live"]
    /\ rawStrong = [x \in Targets |-> 0]
    /\ pc = [t \in Threads |-> "idle"]
    /\ cur = [t \in Threads |-> 0]
    /\ loc = [t \in Threads |-> 0]
    /\ freeCalls = [x \in Targets |-> 0]
    /\ fatal = {}

NextReclaim ==
    \E t \in Threads :
        \/ \E a \in Addrs, l \in WeakSlots : ReclaimWeak(t, a, l)
        \/ \E a \in Targets, l \in WeakSlots : ReclaimWeakUnowned(t, a, l)
        \/ ReclaimWeakRef(t)
        \/ \E l \in WeakSlots : ReclaimWeakWeak(t, l)
        \/ \E k \in WeakSlots : weak[k] # singleton /\ ReleaseWeak(t, k)

SpecReclaim == InitReclaim /\ [][NextReclaim]_vars

\* ------------------------------------------------- copy assignment
\* two targets, so that a handle can be assigned another target's handle
AssignTargets == {1, 2}

\* mutant: operator= gives up the old target first and retains afterwards
CopyAssign_releaseFirst(t, a, b, j) ==
    /\ Idle(t) /\ ~StrongBusy(a) /\ ~StrongBusy(b) /\ NewStrong(j)
    /\ LET old == strong[a]
           new == strong[b]
           rc1 == IF old = singleton THEN refcount
                  ELSE [refcount EXCEPT ![old] = atomic_refcount_decrement(@)]
           zero == IF old = singleton THEN FALSE ELSE rc1[old] = 0
           rc2 == IF new = singleton THEN rc1
                  ELSE [rc1 EXCEPT ![new] = atomic_refcount_increment(@)]
       IN /\ refcount' = rc2
          /\ fatal' = IF new = singleton THEN fatal
                      ELSE IF rc2[new] # 1 THEN fatal ELSE fatal \cup {"retain"}
          /\ IF zero
             THEN /\ strong' = [strong EXCEPT ![a] = new, ![j] = old]
                  /\ Goto(t, "rs_inhook", j, 0)
                  /\ hookCalls' = [hookCalls EXCEPT ![old] = @ + 1]
                  /\ hookBy' = [hookBy EXCEPT ![old] = @ \cup {t}]
             ELSE /\ strong' = [strong EXCEPT ![a] = new]
                  /\ UNCHANGED <<pc, locals, hookCalls, hookBy>>
    /\ UNCHANGED <<weakcount, heap, weak, raws, freeCalls>>

\* intrusive_ptr::operator=(const intrusive_ptr& rhs) on handle a with rhs
\* handle b: intrusive_ptr tmp = rhs (retain_), swap(tmp), and tmp dies
\* with a's old target, that is reset_ up to the call of the hook (slot j
\* names tmp meanwhile); a failing retain_ leaves a as it was
CopyAssign(t, a, b, j) ==
    /\ Idle(t) /\ ~StrongBusy(a) /\ ~StrongBusy(b) /\ NewStrong(j)
    /\ LET old == strong[a]
           new == strong[b]
           rc1 == IF new = singleton THEN refcount
                  ELSE [refcount EXCEPT ![new] = atomic_refcount_increment(@)]
           ok == IF new = singleton THEN TRUE ELSE rc1[new] # 1
           rc2 == IF old = singleton \/ ~ok THEN rc1
                  ELSE [rc1 EXCEPT ![old] = atomic_refcount_decrement(@)]
           zero == IF old = singleton \/ ~ok THEN FALSE ELSE rc2[old] = 0
       IN /\ refcount' = rc2
          /\ fatal' = IF ok THEN fatal ELSE fatal \cup {"retain"}
          /\ IF zero
             THEN /\ strong' = [strong EXCEPT ![a] = new, ![j] = old]
                  /\ Goto(t, "rs_inhook", j, 0)
                  /\ hookCalls' = [hookCalls EXCEPT ![old] = @ + 1]
                  /\ hookBy' = [hookBy EXCEPT ![old] = @ \cup {t}]
             ELSE /\ strong' = IF ok THEN [strong EXCEPT ![a] = new] ELSE strong
                  /\ UNCHANGED <<pc, locals, hookCalls, hookBy>>
    /\ UNCHANGED <<weakcount, heap, weak, raws, freeCalls>>

\* the handles of a program that made up to two targets and copied their
\* handles; a target no handle was made for is not constructed; the last
\* handle variable is free
InitAssign ==
    /\ strong \in [StrongSlots -> {singleton} \cup AssignTargets]
    /\ strong[NumStrong] = singleton
    /\ refcount = [x \in AssignTargets |->
                      Cardinality({h \in StrongSlots : strong[h] = x})]
    /\ weakcount = [x \in AssignTargets |-> IF refcount[x] > 0 THEN 1 ELSE 0]
    /\ heap = [x \in AssignTargets |-> IF refcount[x] > 0 THEN "live" ELSE "unborn"]
    /\ weak = [k \in WeakSlots |-> singleton]
    /\ rawStrong = [x \in AssignTargets |-> 0]
    /\ rawWeak = [x \in AssignTargets |-> 0]
    /\ pc = [t \in Threads |-> "idle"]
    /\ cur = [t \in Threads |-> 0]
    /\ loc = [t \in Threads |-> 0]
    /\ hookCalls = [x \in AssignTargets |-> 0]
    /\ hookBy = [x \in AssignTargets |-> {}]
    /\ freeCalls = [x \in AssignTargets |-> 0]
    /\ fatal = {}

NextAssign ==
    \E t \in Threads :
        \/ \E a, b, j \in StrongSlots : CopyAssign(t, a, b, j)
        \/ HookReturn(t)
        \/ StrongWeakLoad(t)
        \/ StrongDelete(t)

SpecAssign == InitAssign /\ [][NextAssign]_vars

\* ------------------------------- intrusive_ptr_target as a value type
\* intrusive_ptr_target(): __refcount(0), __weakcount(0), in the storage x
TargetDefaultConstruct(x) ==
    /\ heap[x] = "unborn"
    /\ heap' = [heap EXCEPT ![x] = "live"]
    /\ refcount' = [refcount EXCEPT ![x] = 0]
    /\ weakcount' = [weakcount EXCEPT ![x] = 0]
    /\ UNCHANGED <<strong, weak, raws, pc, locals, ghosts, fatal>>

\* mutant: the copy constructor copies the counters with the value
TargetCopyConstruct_copies(x, y) ==
    /\ heap[x] = "unborn" /\ x # y /\ heap[y] = "live"
    /\ heap' = [heap EXCEPT ![x] = "live"]
    /\ refcount' = [refcount EXCEPT ![x] = refcount[y]]
    /\ weakcount' = [weakcount EXCEPT ![x] = weakcount[y]]
    /\ UNCHANGED <<strong, weak, raws, pc, locals, ghosts, fatal>>

\* intrusive_ptr_target(const intrusive_ptr_target& other_ptr) in the storage
\* x with other_ptr = y: it delegates to intrusive_ptr_target()
TargetCopyConstruct(x, y) ==
    /\ heap[x] = "unborn" /\ x # y /\ heap[y] = "live"
    /\ heap' = [heap EXCEPT ![x] = "live"]
    /\ refcount' = [refcount EXCEPT ![x] = 0]
    /\ weakcount' = [weakcount EXCEPT ![x] = 0]
    /\ UNCHANGED <<strong, weak, raws, pc, locals, ghosts, fatal>>

\* intrusive_ptr_target(intrusive_ptr_target&& other_ptr): the same
TargetMoveConstruct(x, y) ==
    /\ heap[x] = "unborn" /\ x # y /\ heap[y] = "live"
    /\ heap' = [heap EXCEPT ![x] = "live"]
    /\ refcount' = [refcount EXCEPT ![x] = 0]
    /\ weakcount' = [weakcount EXCEPT ![x] = 0]
    /\ UNCHANGED <<strong, weak, raws, pc, locals, ghosts, fatal>>

\* mutant: the copy assignment copies the counters with the value
TargetCopyAssign_copies(x, y) ==
    /\ heap[x] = "live" /\ heap[y] = "live"
    /\ refcount' = [refcount EXCEPT ![x] = refcount[y]]
    /\ weakcount' = [weakcount EXCEPT ![x] = weakcount[y]]
    /\ UNCHANGED <<heap, strong, weak, raws, pc, locals, ghosts, fatal>>

\* operator=(const intrusive_ptr_target& other_ptr) on the target x with
\* other_ptr = y: return *this
TargetCopyAssign(x, y) ==
    /\ heap[x] = "live" /\ heap[y] = "live"
    /\ UNCHANGED vars

\* operator=(intrusive_ptr_target&& other_ptr): return *this
TargetMoveAssign(x, y) ==
    /\ heap[x] = "live" /\ heap[y] = "live"
    /\ UNCHANGED vars

\* the counters a target made earlier can have: s strong units with the
\* phantom weak unit and w weak units, or w weak units alone after the
\* teardown; the units are held as released addresses
ManagedCounts ==
    {c \in (0..NumStrong) \X (0..NumWeak) : c[1] + c[2] > 0}

\* two storage locations, each one free or holding a target made earlier
InitTarget ==
    /\ heap \in [AssignTargets -> {"unborn", "live"}]
    /\ \E c \in [AssignTargets -> ManagedCounts] :
        /\ refcount = [x \in AssignTargets |->
                          IF heap[x] = "live" THEN c[x][1] ELSE 0]
        /\ weakcount = [x \in AssignTargets |->
                           IF heap[x] # "live" THEN 0
                           ELSE c[x][2] + (IF c[x][1] > 0 THEN 1 ELSE 0)]
        /\ rawStrong = refcount
        /\ rawWeak = [x \in AssignTargets |->
                         IF heap[x] = "live" THEN c[x][2] ELSE 0]
        /\ hookCalls = [x \in AssignTargets |->
                           IF heap[x] = "live" /\ c[x][1] = 0 THEN 1 ELSE 0]
    /\ strong = [h \in StrongSlots |-> singleton]
    /\ weak = [k \in WeakSlots |-> singleton]
    /\ pc = [t \in Threads |-> "idle"]
    /\ cur = [t \in Threads |-> 0]
    /\ loc = [t \in Threads |-> 0]
    /\ hookBy = [x \in AssignTargets |-> {}]
    /\ freeCalls = [x \in AssignTargets |-> 0]
    /\ fatal = {}

NextTarget ==
    \E x, y \in AssignTargets :
        \/ TargetDefaultConstruct(x)
        \/ TargetCopyConstruct(x, y)
        \/ TargetMoveConstruct(x, y)
        \/ TargetCopyAssign(x, y)
        \/ TargetMoveAssign(x, y)

SpecTarget == InitTarget /\ [][NextTarget]_vars

\* ---------------------------------------- one thread, no concurrency
\* the handle operations called by a single thread, each one running to
\* its end before the next is called
NextSeq ==
    \E t \in Lockers :
        \/ \E h \in StrongSlots : Make(t, h)
        \/ \E h, j \in StrongSlots : strong[h] # singleton /\ CopyStrong(t, h, j)
        \/ \E h \in StrongSlots : strong[h] # singleton /\ ResetStrong(t, h)
        \/ HookReturn(t)
        \/ StrongWeakLoad(t)
        \/ StrongWeakDec(t)
        \/ StrongDelete(t)
        \/ \E h \in StrongSlots, k \in WeakSlots :
               strong[h] # singleton /\ WeakFromStrong(t, h, k)
        \/ \E k, l \in WeakSlots : weak[k] # singleton /\ CopyWeak(t, k, l)
        \/ \E k \in WeakSlots : weak[k] # singleton /\ ResetWeak(t, k)
        \/ WeakDelete(t)
        \/ \E k \in WeakSlots : StrongRoom /\ LockExpired(t, k)
        \/ LockLoad(t)
        \/ \E j \in StrongSlots : LockCas(t, j)

SpecSeq == Init /\ [][NextSeq]_vars

\* ------------------------------------------------------------------ C21
\* C21: the constructor of a weak handle from a non-sentinel strong handle
\* raises weak_count of the target by one and leaves strong_count alone; it
\* fails the enforce of weak retain_ exactly when weak_count was 0 and then
\* builds no handle; from a sentinel strong handle it builds a sentinel weak
\* handle and changes no counter.
C21_Step ==
    \A t \in Threads, h \in StrongSlots, k \in WeakSlots :
        WeakFromStrong(t, h, k) =>
            /\ refcount' = refcount
            /\ strong[h] = singleton =>
                   weakcount' = weakcount /\ weak'[k] = singleton /\ fatal' = fatal
            /\ \A x \in Targets :
                   strong[h] = x =>
                       /\ weakcount'[x] = (weakcount[x] + 1) % SizeMod
                       /\ IF weakcount[x] = 0
                          THEN "weak_retain" \in fatal' /\ weak' = weak
                          ELSE fatal' = fatal /\ weak'[k] = x

C25_Step ==
    \A t \in Threads, h \in StrongSlots, r \in SelfRetains, w \in SelfWeakRetains :
        MakeSelfRetaining(t, h, r, w) =>
            /\ "make" \in fatal'
            /\ \E x \in Targets :
                /\ heap[x] = "unborn" /\ heap'[x] = "live"
                /\ weakcount'[x] = w
                /\ refcount'[x] = (r - 1) % SizeMod
                /\ StrongHandles(x)' = {}

C25_MakeEnforce == [][C25_Step]_vars

\* make() has failed on a target whose constructor retained itself twice:
\* the target is allocated with strong_count 1, weak_count 0 and no handle
C25_Witness ==
    \E x \in Targets :
        /\ "make" \in fatal
        /\ heap[x] = "live" /\ refcount[x] = 1 /\ weakcount[x] = 0
        /\ \A h \in StrongSlots : strong[h] = singleton


\* ------------------------------------------------------------------ C22
\* C22: copying a weak handle raises weak_count by exactly one and leaves
\* strong_count alone, also when the target is expired but allocated; the
\* copy is fatal only if weak_count was 0, and only a copy that is not
\* fatal yields a handle.
C22_Step ==
    \A t \in Threads, k, l \in WeakSlots :
        CopyWeak(t, k, l) =>
            /\ refcount' = refcount
            /\ weak[k] = singleton =>
                   weakcount' = weakcount /\ fatal' = fatal
            /\ \A x \in Targets :
                   weak[k] = x =>
                       /\ weakcount'[x] = (weakcount[x] + 1) % SizeMod
                       /\ IF weakcount[x] = 0
                          THEN "weak_retain" \in fatal' /\ weak' = weak
                          ELSE fatal' = fatal /\ weak'[l] = x

C22_CopyWeak == [][C22_Step]_vars

\* two weak handles on an expired, allocated target whose teardown is over,
\* and no weak retain has failed
C22_Witness ==
    \E x \in Targets :
        /\ heap[x] = "live" /\ refcount[x] = 0 /\ hookCalls[x] > 0
        /\ WeakHandles(x) = WeakSlots
        /\ weakcount[x] = NumWeak
        /\ "weak_retain" \notin fatal

\* ------------------------------------------------------------------ C23
\* C23: sentinel handles are inert: use_count() and weak_use_count() of a
\* sentinel strong or weak handle are 0 (and a sentinel weak handle is
\* expired), and copying, resetting, releasing or locking a sentinel handle
\* changes no counter, runs no hook, frees nothing, starts no teardown and
\* yields nothing but a sentinel.
C23_Step ==
    /\ \A h \in StrongSlots :
           strong[h] = singleton => use_count(h) = 0 /\ weak_use_count(h) = 0
    /\ \A k \in WeakSlots :
           weak[k] = singleton =>
               /\ weak_ptr_use_count(k) = 0
               /\ weak_ptr_weak_use_count(k) = 0
               /\ expired(k)
    /\ \A t \in Threads, h \in StrongSlots :
           /\ strong[h] = singleton
           /\ \/ \E j \in StrongSlots : CopyStrong(t, h, j)
              \/ ResetStrong(t, h)
              \/ ReleaseStrong(t, h)
           => UNCHANGED <<counters, heap, ghosts, raws, pc, fatal, strong, weak>>
    /\ \A t \in Threads, k \in WeakSlots :
           /\ weak[k] = singleton
           /\ \/ \E l \in WeakSlots : CopyWeak(t, k, l)
              \/ ResetWeak(t, k)
              \/ ReleaseWeak(t, k)
              \/ LockExpired(t, k)
           => UNCHANGED <<counters, heap, ghosts, raws, pc, fatal, strong, weak>>

C23_SentinelInert == [][C23_Step]_vars

\* a sentinel strong handle and a sentinel weak handle next to a target
\* that strong and weak handles share, every thread idle: each of the
\* sentinel operations can be called here
C23_Witness ==
    /\ \A t \in Threads : Idle(t)
    /\ \E h \in StrongSlots, k \in WeakSlots :
        /\ strong[h] = singleton /\ weak[k] = singleton
        /\ \E x \in Targets :
            /\ heap[x] = "live" /\ refcount[x] > 1 /\ weakcount[x] > 1
            /\ StrongHandles(x) # {} /\ WeakHandles(x) # {}

\* ------------------------------------------------------------------ C24
\* C24: raw decref on an address for which the caller holds one strong unit
\* has the effect of dropping one strong handle: strong_count goes down by
\* one and nothing else changes unless it reaches 0; at 0 the hook is
\* called once and the caller continues at the same place of reset_ as a
\* typed drop (the weak_count test, the phantom decrement, the delete), so
\* that the accounting of the typed path holds with raw units in the mix.
C24_Inv ==
    \A x \in Targets :
        /\ refcount[x] > 0 <=> StrongUnits(x) > 0
        /\ refcount[x] = StrongUnits(x)
        /\ hookCalls[x] = 1 <=> heap[x] # "unborn" /\ StrongUnits(x) = 0
        /\ hookCalls[x] <= 1 /\ freeCalls[x] <= 1
        /\ heap[x] = "live" /\ Deleting(x) = {} =>
               weakcount[x] = WeakUnits(x) + Phantom(x)
        /\ heap[x] = "freed" => StrongUnits(x) = 0 /\ WeakUnits(x) = 0
        /\ heap[x] # "unborn" /\ Quiet(x) /\ StrongUnits(x) = 0 /\ WeakUnits(x) = 0
               => heap[x] = "freed"
        /\ fatal = {}

C24_Step ==
    \A t \in Threads, a \in Targets, j \in StrongSlots :
        raw_decref(t, a, j) =>
            /\ refcount'[a] = refcount[a] - 1
            /\ rawStrong'[a] = rawStrong[a] - 1
            /\ UNCHANGED <<weakcount, heap, weak, freeCalls, fatal>>
            /\ IF refcount[a] = 1
               THEN /\ hookCalls'[a] = hookCalls[a] + 1
                    /\ pc'[t] = "rs_inhook" /\ cur'[t] = j /\ strong'[j] = a
               ELSE UNCHANGED <<hookCalls, pc, strong>>

C24_RawDecrefIsDrop == [](C24_Inv) /\ [][C24_Step]_vars

\* a raw decref took strong_count to 0 and its caller, still holding the
\* address, has come to the delete of reset_
C24_Witness ==
    \E t \in Threads, x \in Targets :
        /\ pc[t] = "rs_delete" /\ RsTarget(t) = x /\ loc[t] = x
        /\ heap[x] = "live" /\ refcount[x] = 0 /\ hookCalls[x] = 1

\* ------------------------------------------------------------------ C26
\* C26: reclaiming into a strong handle the address of an allocated target
\* whose strong_count is 0 and for which no released strong unit is
\* outstanding fails a fatal check and returns no handle.
C26_Step ==
    \A t \in Threads, a \in Targets, j \in StrongSlots :
        ReclaimStrongUnowned(t, a, j) => fatal' # fatal /\ strong' = strong

C26_ReclaimUnownedIsFatal == [][C26_Step]_vars

\* ------------------------------------------------------------------ C28
\* C28: when the copy of a strong handle fails its retain guard because
\* strong_count was 0, strong_count is still 0 after the failure.
C28_Step ==
    \A t \in Threads, h, j \in StrongSlots, x \in Targets :
        /\ CopyStrong(t, h, j)
        /\ strong[h] = x /\ refcount[x] = 0
        => "retain" \in fatal' /\ refcount'[x] = 0

C28_FailedRetainKeepsZero == [][C28_Step]_vars

\* ------------------------------------------------------------------ C29
\* C29: the assertions of the target's destructor never fail for a
\* deallocation the handle operations perform: whenever a thread is at a
\* delete, strong_count is 0 and weak_count is 0 or 1, no target is
\* deleted twice and no destructor assertion has failed.
C29_DtorAssertionsHold ==
    /\ "dtor" \notin fatal
    /\ \A x \in Targets :
        /\ freeCalls[x] <= 1
        /\ Deleting(x) # {} =>
               /\ heap[x] = "live"
               /\ TargetDtorOk(x)
               /\ refcount[x] = 0 /\ weakcount[x] \in {0, 1}

\* a weak drop is at its delete after another thread ran the teardown of
\* the last strong drop and gave the phantom unit up
C29_Witness ==
    \E t, u \in Threads, x \in Targets :
        /\ t # u /\ pc[t] = "wr_delete" /\ WkTarget(t) = x
        /\ hookBy[x] = {u} /\ Idle(u)
        /\ refcount[x] = 0 /\ weakcount[x] = 0

\* ------------------------------------------------------------------ C30
\* C30: weak reclaim of an address that holds a released, outstanding weak
\* unit never fails its enforce, whatever strong drops (the last one
\* included), weak copies and drops and lock() calls run beside it: a
\* reclaim that did not load weak_count > 1 finds strong_count = 0 at its
\* second load and weak_count > 0 at its third.
C30_WeakReclaimPasses ==
    /\ "weak_reclaim" \notin fatal
    /\ \A t \in Threads :
           pc[t] \in ReclaimPcs =>
               /\ loc[t] \in Targets
               /\ heap[loc[t]] = "live"
               /\ refcount[loc[t]] = 0
               /\ weakcount[loc[t]] > 0

\* a reclaim that loaded weak_count = 1 and strong_count = 0 is at its
\* third load, after the other thread ran the last strong drop
C30_Witness ==
    \E t, u \in Threads, x \in Targets :
        /\ t # u /\ pc[t] = "rc_weak" /\ loc[t] = x
        /\ hookBy[x] = {u}
        /\ refcount[x] = 0 /\ weakcount[x] = 1 /\ rawWeak[x] = 0

\* ------------------------------------------------------------------ C27
\* C27: no operation blocks: every step of an operation moves it to a later
\* position, except that the exchange of lock() is tried again, with the
\* reloaded value, when strong_count is no longer the value lock() read;
\* with a fair scheduler and finitely many changes of strong_count by the
\* other thread, every call of lock() returns.
C27_Step ==
    \A t \in Threads :
        /\ pc[t] # "idle" /\ pc'[t] # pc[t] => PcRank(pc'[t]) > PcRank(pc[t])
        /\ pc[t] # "idle" /\ pc'[t] = pc[t] /\ <<cur'[t], loc'[t]>> # <<cur[t], loc[t]>> =>
               /\ pc[t] = "lk_cas" /\ cur'[t] = cur[t]
               /\ refcount[WkTarget(t)] # loc[t]
               /\ loc'[t] = refcount[WkTarget(t)]
               /\ refcount' = refcount

C31_Step ==
    /\ UNCHANGED counters
    /\ \A t \in Threads, a \in Addrs, l \in WeakSlots :
           /\ ReclaimWeak(t, a, l) \/ (a # singleton /\ ReclaimWeakUnowned(t, a, l))
           /\ pc'[t] = "idle"
           => /\ IF a = singleton THEN TRUE ELSE weakcount[a] > 1
              /\ weak'[l] = a /\ fatal' = fatal
    /\ \A t \in Threads, a \in Targets, l \in WeakSlots :
           /\ ReclaimWeak(t, a, l) \/ ReclaimWeakUnowned(t, a, l)
           /\ pc'[t] # "idle"
           => weakcount[a] <= 1 /\ weak' = weak /\ fatal' = fatal
    /\ \A t \in Threads, x \in Targets :
           pc[t] \in ReclaimPcs /\ loc[t] = x /\ pc'[t] = "idle" =>
               IF refcount[x] = 0 /\ weakcount[x] > 0
               THEN /\ fatal' = fatal
                    /\ \E l \in WeakSlots : weak[l] = singleton /\ weak'[l] = x
               ELSE /\ "weak_reclaim" \in fatal'
                    /\ weak' = weak

C31_WeakReclaimGuard == [][C31_Step]_vars

\* reclaim has failed on a target with strong owners and no weak unit
C31_Witness ==
    \E x \in Targets :
        /\ "weak_reclaim" \in fatal
        /\ refcount[x] > 0 /\ weakcount[x] = 1
        /\ \A t \in Threads : Idle(t)

\* ------------------------------------------------------------------ C32
\* C32: copy assignment a = b retains b's target before it gives up a's old
\* target: afterwards a names b's target, whose strong_count is one higher,
\* and a's old target has one strong unit less, with the teardown started
\* if that was the last; when a and b name the same target (a = a with
\* use_count 1 included) no counter has changed, no hook is called, nothing
\* is freed.
C32_Step ==
    \A t \in Threads, a, b, j \in StrongSlots :
        CopyAssign(t, a, b, j) =>
            /\ strong'[a] = strong[b]
            /\ fatal' = fatal /\ heap' = heap /\ weakcount' = weakcount
            /\ strong[a] = strong[b] =>
                   UNCHANGED <<refcount, hookCalls, pc, strong>>
            /\ strong[a] # strong[b] =>
                   /\ \A y \in AssignTargets :
                          strong[b] = y => refcount'[y] = refcount[y] + 1
                   /\ \A x \in AssignTargets :
                          strong[a] = x =>
                              /\ refcount'[x] = refcount[x] - 1
                              /\ IF refcount[x] = 1
                                 THEN /\ hookCalls'[x] = hookCalls[x] + 1
                                      /\ pc'[t] = "rs_inhook"
                                      /\ cur'[t] = j /\ strong'[j] = x
                                 ELSE UNCHANGED <<hookCalls, pc>>
                   /\ strong[a] = singleton => UNCHANGED <<hookCalls, pc>>

C32_CopyAssign == [][C32_Step]_vars

\* an assignment gave one target its last-but-one handle variable and took
\* the other target's last handle: that target is in the hook
C32_Witness ==
    \E t \in Threads, x, y \in AssignTargets :
        /\ x # y
        /\ pc[t] = "rs_inhook" /\ RsTarget(t) = x /\ refcount[x] = 0
        /\ refcount[y] = NumStrong - 1
        /\ Cardinality(StrongHandles(y)) = NumStrong - 1

\* ------------------------------------------------------------------ C33
\* C33: reset() always leaves the handle as the sentinel and is idempotent:
\* when a reset (with its teardown, if any) or a release() returns, the
\* strong or weak handle names the sentinel, and a further reset of it (the
\* destructor's, for one) decrements no counter, calls no hook and frees
\* nothing.
C33_Step ==
    /\ \A t \in Threads, h \in StrongSlots :
           /\ (ResetStrong(t, h) /\ pc'[t] = "idle") \/ ReleaseStrong(t, h)
              => strong'[h] = singleton
           /\ pc[t] \in StrongPcs /\ cur[t] = h /\ pc'[t] = "idle"
              => strong'[h] = singleton
           /\ strong[h] = singleton /\ ResetStrong(t, h)
              => UNCHANGED <<counters, heap, ghosts, pc, strong>>
    /\ \A t \in Threads, k \in WeakSlots :
           /\ (ResetWeak(t, k) /\ pc'[t] = "idle") \/ ReleaseWeak(t, k)
              => weak'[k] = singleton
           /\ pc[t] \in WeakPcs /\ cur[t] = k /\ pc'[t] = "idle"
              => weak'[k] = singleton
           /\ weak[k] = singleton /\ ResetWeak(t, k)
              => UNCHANGED <<counters, heap, ghosts, pc, weak>>

C33_ResetIdempotent == [][C33_Step]_vars

\* the reset of the last strong handle has run the teardown and freed the
\* target after a weak handle was reset: every handle names the sentinel,
\* and the destructors of the handle variables are still to come
C33_Witness ==
    \E x \in Targets :
        /\ \A t \in Threads : Idle(t)
        /\ heap[x] = "freed" /\ hookCalls[x] = 1 /\ freeCalls[x] = 1
        /\ refcount[x] = 0 /\ weakcount[x] = 1
        /\ rawStrong[x] = 0 /\ rawWeak[x] = 0
        /\ \A h \in StrongSlots : strong[h] = singleton
        /\ \A k \in WeakSlots : weak[k] = singleton

\* ------------------------------------------------------------------ C34
\* C34: raw make_weak on an address for which the caller holds a strong
\* unit returns the address as one new weak unit: weak_count is one higher,
\* strong_count and the caller's strong unit are as before, and its
\* temporary handles call no hook and free nothing.
C34_Step ==
    \A t \in Threads, a \in Targets, j \in StrongSlots :
        raw_make_weak(t, a, j) =>
            /\ weakcount'[a] = weakcount[a] + 1
            /\ rawWeak'[a] = rawWeak[a] + 1
            /\ UNCHANGED <<refcount, rawStrong, strong, weak>>
            /\ UNCHANGED <<heap, ghosts, pc, fatal>>

C34_MakeWeak == [][C34_Step]_vars

\* make_weak has been called on a released strong address: the caller holds
\* a raw strong and a raw weak unit of a target no handle names
C34_Witness ==
    \E x \in Targets :
        /\ heap[x] = "live" /\ rawStrong[x] = 1 /\ rawWeak[x] = 1
        /\ refcount[x] = 1 /\ weakcount[x] = 2
        /\ StrongHandles(x) = {} /\ WeakHandles(x) = {}

\* ------------------------------------------------------------------ C35
\* C35: raw weak lock on an address for which the caller holds a weak unit
\* returns the address with one new strong unit (strong_count + 1) when
\* strong_count > 0 and the null address when strong_count = 0; weak_count
\* does not change and the caller's weak unit is outstanding afterwards.
C35_Inv ==
    \A t \in Threads :
        pc[t] \in RawLockPcs =>
            /\ WkTarget(t) \in Targets
            /\ heap[WkTarget(t)] = "live"
            /\ weakcount[WkTarget(t)] > 0

C35_Step ==
    \A t \in Threads, x \in Targets :
        /\ \A l \in WeakSlots :
               raw_weak_lock(t, x, l) =>
                   /\ UNCHANGED <<counters, rawStrong, heap, ghosts, fatal, strong>>
                   /\ refcount[x] = 0 => UNCHANGED <<rawWeak, weak, pc>>
                   /\ refcount[x] > 0 => pc'[t] \in RawLockPcs
        /\ pc[t] \in RawLockPcs /\ WkTarget(t) = x /\ pc'[t] # pc[t] =>
               /\ weakcount' = weakcount
               /\ UNCHANGED <<heap, ghosts, fatal, strong>>
               /\ IF pc'[t] = "idle"
                  THEN /\ weak'[cur[t]] = singleton
                       /\ rawWeak'[x] = rawWeak[x] + 1
                       /\ \/ /\ refcount[x] > 0
                             /\ refcount'[x] = refcount[x] + 1
                             /\ rawStrong'[x] = rawStrong[x] + 1
                          \/ /\ refcount[x] = 0
                             /\ UNCHANGED <<refcount, rawStrong>>
                  ELSE UNCHANGED <<refcount, raws, weak>>

C35_RawWeakLock == [](C35_Inv) /\ [][C35_Step]_vars

\* a raw lock is at its exchange with the strong_count it read, 1, still
\* in place, the only strong unit being a handle of the other thread's
C35_Witness ==
    \E t \in Threads, x \in Targets :
        /\ pc[t] = "rk_cas" /\ WkTarget(t) = x
        /\ loc[t] = 1 /\ refcount[x] = 1 /\ rawStrong[x] = 0
        /\ weakcount[x] = 2 /\ rawWeak[x] = 0

\* ------------------------------------------------------------------ C36
\* C36: no counter underflows: when every unit is dropped at most once, no
\* decrement is applied to a strong_count or weak_count that is 0, so a
\* counter at 0 stays 0 or goes to 1, and no counter exceeds the number of
\* units that can exist.
C36_Inv ==
    \A x \in Targets :
        /\ refcount[x] <= NumStrong + MaxRaw
        /\ weakcount[x] <= NumWeak + MaxRaw + Cardinality(Threads) + 1

C36_Step ==
    \A x \in Targets :
        /\ refcount[x] = 0 => refcount'[x] \in {0, 1}
        /\ weakcount[x] = 0 => weakcount'[x] \in {0, 1}
        /\ refcount'[x] < refcount[x] => refcount'[x] = refcount[x] - 1
        /\ weakcount'[x] < weakcount[x] => weakcount'[x] = weakcount[x] - 1

C36_NoUnderflow == [](C36_Inv) /\ [][C36_Step]_vars

\* every unit of the target has been dropped, the phantom unit included:
\* both counters were taken down to 0 and the target was freed
C36_Witness ==
    \E x \in Targets :
        /\ heap[x] = "freed" /\ refcount[x] = 0 /\ weakcount[x] = 0
        /\ \A t \in Threads : Idle(t)
        /\ StrongUnits(x) = 0 /\ WeakUnits(x) = 0

\* ------------------------------------------------------------------ C37
\* C37: unsafe_reclaim_from_nonowning racing with the last strong drop never
\* touches a deallocated target: a call that has passed its check of
\* strong_count > 0 and has its increment still to do finds the target
\* allocated.
C37_RetainMeetsAllocated ==
    \A t \in Threads :
        pc[t] = "nr_retain" /\ loc[t] # singleton => heap[loc[t]] = "live"

\* ------------------------------------------------------------------ C38
\* C38: the counters belong to the storage location, not to the value: a
\* target that is default-, copy- or move-constructed starts with
\* strong_count = weak_count = 0 whatever the counters of its source, and
\* copy- or move-assigning one target to another leaves the counters of
\* both as they were.
C38_Step ==
    \A x, y \in AssignTargets :
        /\ \/ TargetDefaultConstruct(x)
           \/ TargetCopyConstruct(x, y)
           \/ TargetMoveConstruct(x, y)
           => /\ refcount'[x] = 0 /\ weakcount'[x] = 0
              /\ \A z \in AssignTargets \ {x} :
                     refcount'[z] = refcount[z] /\ weakcount'[z] = weakcount[z]
        /\ TargetCopyAssign(x, y) \/ TargetMoveAssign(x, y)
           => UNCHANGED counters

C38_CountersStayWithStorage ==
    /\ [][C38_Step]_vars
    /\ [][\A x \in AssignTargets :
              heap[x] = "live" =>
                  refcount'[x] = refcount[x] /\ weakcount'[x] = weakcount[x]]_vars

\* a target constructed from a managed one: it is at (0,0) next to its
\* source, which has strong and weak units
C38_Witness ==
    \E x, y \in AssignTargets :
        /\ heap[x] = "live" /\ refcount[x] = 0 /\ weakcount[x] = 0
        /\ heap[y] = "live" /\ refcount[y] = NumStrong /\ weakcount[y] = NumWeak + 1

\* ------------------------------------------------------------------ C39
\* C39: without concurrent operations expired() on a weak handle is true
\* exactly when lock() on it returns the sentinel: an expired handle's
\* lock() returns at once without a handle, any other handle's lock() ends
\* with a new strong handle; and a handle that is expired is expired after
\* every later weak copy, weak drop and lock().
C39_Inv ==
    \A t \in Threads :
        pc[t] \in LockPcs =>
            /\ ~expired(cur[t])
            /\ pc[t] = "lk_cas" => loc[t] = refcount[WkTarget(t)]

C39_Step ==
    /\ \A t \in Threads, k \in WeakSlots :
           LockExpired(t, k) =>
               /\ expired(k) <=> pc'[t] = "idle"
               /\ UNCHANGED <<counters, strong, weak>>
    /\ \A t \in Threads :
           pc[t] \in LockPcs /\ pc'[t] = "idle" =>
               /\ ~expired(cur[t])
               /\ refcount'[WkTarget(t)] = refcount[WkTarget(t)] + 1
               /\ \E j \in StrongSlots :
                      strong[j] = singleton /\ strong'[j] = WkTarget(t)
    /\ \A k \in WeakSlots :
           weak[k] # singleton /\ expired(k) /\ weak'[k] = weak[k] => expired(k)'

C39_ExpiredIffLockFails == [](C39_Inv) /\ [][C39_Step]_vars

\* two weak handles on a target whose last strong handle was dropped: both
\* are expired and lock() on either returns the sentinel
C39_Witness ==
    \E x \in Targets :
        /\ \A t \in Threads : Idle(t)
        /\ heap[x] = "live" /\ refcount[x] = 0 /\ hookCalls[x] = 1
        /\ \A k \in WeakSlots : weak[k] = x /\ expired(k)
        /\ \A h \in StrongSlots : strong[h] = singleton

TypeOK ==
    /\ refcount \in [Targets -> 0..(SizeMod - 1)]
    /\ weakcount \in [Targets -> 0..(SizeMod - 1)]
    /\ heap \in [Targets -> {"unborn", "live", "freed"}]
    /\ strong \in [StrongSlots -> Addrs]
    /\ weak \in [WeakSlots -> Addrs]
    /\ rawStrong \in [Targets -> 0..MaxRaw]
    /\ rawWeak \in [Targets -> 0..MaxRaw]
    /\ pc \in [Threads -> {"idle"} \cup StrongPcs \cup WeakPcs \cup LockPcs \cup ReclaimPcs
                         \cup NonowningPcs \cup RawLockPcs]
    /\ fatal \subseteq Enforces
=============================================================================
